---- MODULE Spec2Model ----
(***************************************************************************)
(* Film Akinator: the decision engine (backend/engines/engine_akinator.py) *)
(* driven by its interactive loop (main) and by the HTTP session handler   *)
(* (backend/app_akinator.py).                                              *)
(*                                                                         *)
(* Numbers.  Film scores are Python floats that are sums of multiples of   *)
(* 0.1; they are kept here as integers in tenths (5.0 is 50, 0.2 is 2).    *)
(* Question scores (entropy) are kept in units of 1/10000, rounded down.   *)
(* Python's None is the string "None"; a predicate's three results are     *)
(* "True", "False" and "None".                                             *)
(***************************************************************************)
EXTENDS Integers, Sequences, FiniteSets, TLC

None == "None"

(***************************************************************************)
(* Bounds of the model.                                                    *)
(***************************************************************************)
\* answered questions explored per game (question_count is unbounded in the code),
\* for each of the pools below
MaxQuestionsMixed == 4
MaxQuestionsEnglish == 7
MaxQuestionsBudget == 6
MaxQuestionsPair == 9
MaxQuestionsTwins == 7
\* requests explored per HTTP session that the last response did not invite
MaxUnsolicited == 1
\* the count of prompts since a rejected guess stops growing here
MaxTurns == 3

(***************************************************************************)
(* Sequences helpers.                                                      *)
(***************************************************************************)
Range(s) == {s[i] : i \in DOMAIN s}

RECURSIVE SeqFilter(_, _)
\* [x for x in s if x \in keep], order kept
SeqFilter(s, keep) ==
    IF s = <<>> THEN <<>>
    ELSE IF Head(s) \in keep THEN <<Head(s)>> \o SeqFilter(Tail(s), keep)
         ELSE SeqFilter(Tail(s), keep)

RECURSIVE SortedInts(_)
\* sorted(S) of a finite set of integers
SortedInts(S) ==
    IF S = {} THEN <<>>
    ELSE LET lo == CHOOSE x \in S : \A y \in S : x <= y
         IN  <<lo>> \o SortedInts(S \ {lo})

Take(s, n) == SubSeq(s, 1, IF Len(s) < n THEN Len(s) ELSE n)

\* [s[i] for i in range(len(s)) if i in keep], order kept
SelectIndices(s, keep) ==
    [k \in 1..Cardinality(keep) |->
        s[CHOOSE i \in keep : Cardinality({j \in keep : j < i}) = k - 1]]

(***************************************************************************)
(* Films.  A film is a row of the movies table as discover_movies returns  *)
(* it.  The films of the model carry the columns the questions below read; *)
(* they have no keywords, cast, crew, countries, runtime or revenue, so    *)
(* every predicate over those answers None or False for all of them.       *)
(*   title   : NULL, or <<[first, norm, words]>>: the first character of   *)
(*             the raw title, the first character of normalize_title(title)*)
(*             and the number of blank-separated words                     *)
(*   year    : NULL, or <<safe_year(release_date)>>                        *)
(*   budget  : in millions; 0 for a NULL or zero budget, which the         *)
(*             predicates treat alike                                      *)
(*   original_language : "None" for NULL                                   *)
(*   genres  : names of the film's genres; {} when it has none             *)
(***************************************************************************)
NULL == <<>>
Some(v) == <<v>>
Val(o) == o[1]

Film(id, title, year, pop, lang, genres, budget, coll) ==
    [id |-> id, title |-> title, year |-> year, popularity |-> pop,
     original_language |-> lang, genres |-> genres, budget |-> budget,
     collection |-> coll]

Title(first, norm, words) == Some([first |-> first, norm |-> norm, words |-> words])

movie_id(m) == m.id

(***************************************************************************)
(* Predicates: film -> "True" | "False" | "None".                          *)
(***************************************************************************)
Tri(b) == IF b THEN "True" ELSE "False"

pred_after_year(year, m) == IF m.year = NULL THEN None ELSE Tri(Val(m.year) >= year)

pred_before_year(year, m) == IF m.year = NULL THEN None ELSE Tri(Val(m.year) < year)

pred_decade(start_year, m) ==
    IF m.year = NULL THEN None
    ELSE Tri(start_year <= Val(m.year) /\ Val(m.year) < start_year + 10)

\* genre_ids empty: falls back to the details record, whose genres are empty too
pred_has_genre(name, m) == IF m.genres = {} THEN None ELSE Tri(name \in m.genres)

pred_is_animation(m) == pred_has_genre("Animation", m)

pred_not_animation(m) ==
    LET r == pred_is_animation(m)
    IN  IF r = None THEN None ELSE Tri(r = "False")

pred_language(lang_code, m) ==
    IF m.original_language = None THEN None
    ELSE Tri(m.original_language = lang_code)

\* popularity is never NULL in the films of the model
pred_popularity_ge(th, m) == Tri(m.popularity >= th)

\* budget in (None, 0)
NoBudget(m) == m.budget = 0

pred_budget_ge(th, m) == IF NoBudget(m) THEN None ELSE Tri(m.budget >= th)

pred_budget_lt(th, m) == IF NoBudget(m) THEN None ELSE Tri(m.budget < th)

pred_is_indie(m) == IF NoBudget(m) THEN None ELSE Tri(m.budget < 5)

\* every film of the model has an id, so the result is never None
pred_is_saga(m) == Tri(m.collection)

pred_not_saga(m) ==
    LET r == pred_is_saga(m)
    IN  IF r = None THEN None ELSE Tri(r = "False")

pred_title_starts_with(letter, m) ==
    IF m.title = NULL THEN None ELSE Tri(Val(m.title).norm = letter)

\* the lambda of the joker_title_* questions, over the letters of one bucket
pred_joker_title(letters, m) ==
    IF \E l \in letters : pred_title_starts_with(l, m) = "True" THEN "True"
    ELSE IF \A l \in letters : pred_title_starts_with(l, m) = None THEN None
    ELSE "False"

\* str(m.get("title", "")) is "None" for a film whose title is NULL
RawFirst(m) == IF m.title = NULL THEN "N" ELSE Val(m.title).first
RawWords(m) == IF m.title = NULL THEN 1 ELSE Val(m.title).words

\* the lambda of the bin_title_words_* questions: never None
pred_title_words(wc, m) == Tri(RawWords(m) = wc)

(***************************************************************************)
(* Questions.  A question is [key, pfx, pred, requires, excludes]: pfx is  *)
(* the prefix of key that the code's startswith tests look at, and pred    *)
(* is the predicate as <<kind, argument>>.                                 *)
(***************************************************************************)
Question(key, pfx, pred, requires, excludes) ==
    [key |-> key, pfx |-> pfx, pred |-> pred, requires |-> requires,
     excludes |-> excludes]

predicate(q, m) ==
    LET kind == q.pred[1]
        arg  == q.pred[2]
    IN  CASE kind = "after_year"   -> pred_after_year(arg, m)
          [] kind = "before_year"  -> pred_before_year(arg, m)
          [] kind = "decade"       -> pred_decade(arg, m)
          [] kind = "genre"        -> pred_has_genre(arg, m)
          [] kind = "animation"    -> pred_is_animation(m)
          [] kind = "live_action"  -> pred_not_animation(m)
          [] kind = "language"     -> pred_language(arg, m)
          [] kind = "popularity"   -> pred_popularity_ge(arg, m)
          [] kind = "budget_ge"    -> pred_budget_ge(arg, m)
          [] kind = "budget_lt"    -> pred_budget_lt(arg, m)
          [] kind = "indie"        -> pred_is_indie(m)
          [] kind = "saga"         -> pred_is_saga(m)
          [] kind = "standalone"   -> pred_not_saga(m)
          [] kind = "title_letter" -> pred_title_starts_with(arg, m)
          [] kind = "joker"        -> pred_joker_title(arg, m)
          [] kind = "title_words"  -> pred_title_words(arg, m)

\* key.startswith(p)
StartsWith(q, p) == q.pfx = p

StartsWithAny(q, ps) == q.pfx \in ps

(***************************************************************************)
(* default_questions: the static questions, in the catalogue's order, that *)
(* some film of the model answers True to.  The others (keywords,          *)
(* franchises, characters, directors, runtime, countries, revenue) score   *)
(* at most 0 on every pool of the model and are never selected; they       *)
(* count in the sampling of choose_best_question, which CataloguePosition  *)
(* and CatalogueSize account for.                                          *)
(***************************************************************************)
default_questions ==
    << Question("is_animation",   "is_animation",   <<"animation", None>>,   {}, {}),
       Question("is_live_action", "is_live_action", <<"live_action", None>>, {}, {}),
       Question("decade_1980s",   "decade_",        <<"decade", 1980>>,      {}, {}),
       Question("decade_1990s",   "decade_",        <<"decade", 1990>>,      {}, {}),
       Question("decade_2000s",   "decade_",        <<"decade", 2000>>,      {}, {}),
       Question("decade_2010s",   "decade_",        <<"decade", 2010>>,      {}, {}),
       Question("before_1990",    "before_",        <<"before_year", 1990>>, {}, {}),
       Question("before_2000",    "before_",        <<"before_year", 2000>>, {},
                {"before_1990"}),
       Question("after_2010",     "after_",         <<"after_year", 2010>>,  {}, {}),
       Question("after_2020",     "after_",         <<"after_year", 2020>>,  {},
                {"before_2000", "before_1990"}),
       Question("genre_action",   "genre_",         <<"genre", "Action">>,   {}, {}),
       Question("genre_comedy",   "genre_",         <<"genre", "Comedy">>,   {}, {}),
       Question("language_en",    "language_",      <<"language", "en">>,    {}, {}),
       Question("language_fr",    "language_",      <<"language", "fr">>,    {}, {}),
       Question("language_pt",    "language_",      <<"language", "pt">>,    {}, {}),
       Question("very_popular",   "very_popular",   <<"popularity", 80>>,    {}, {}),
       Question("popular",        "popular",        <<"popularity", 50>>,    {}, {}),
       Question("big_budget",     "big_budget",     <<"budget_ge", 50>>,     {}, {}),
       Question("small_budget",   "small_budget",   <<"budget_lt", 10>>,     {},
                {"big_budget"}),
       Question("is_indie",       "is_indie",       <<"indie", None>>,       {},
                {"big_budget"}),
       Question("is_saga",        "is_saga",        <<"saga", None>>,        {}, {}),
       Question("is_standalone",  "is_standalone",  <<"standalone", None>>,  {}, {}),
       Question("joker_title_a_d", "joker_title_",  <<"joker", {"A", "B", "C", "D"}>>,
                {}, {}),
       Question("joker_title_e_h", "joker_title_",  <<"joker", {"E", "F", "G", "H"}>>,
                {}, {}),
       Question("joker_title_m_p", "joker_title_",  <<"joker", {"M", "N", "O", "P"}>>,
                {}, {}) >>

\* len(default_questions(conn)): the catalogue of the program, with the
\* questions the model leaves out
CatalogueSize == 198

\* the place of a question of the model in the catalogue of the program,
\* counted from 1
CataloguePosition(key) ==
    CASE key = "is_animation"    -> 1
      [] key = "is_live_action"  -> 2
      [] key = "decade_1980s"    -> 13
      [] key = "decade_1990s"    -> 14
      [] key = "decade_2000s"    -> 15
      [] key = "decade_2010s"    -> 16
      [] key = "before_1990"     -> 18
      [] key = "before_2000"     -> 19
      [] key = "after_2010"      -> 20
      [] key = "after_2020"      -> 21
      [] key = "genre_action"    -> 22
      [] key = "genre_comedy"    -> 24
      [] key = "language_en"     -> 102
      [] key = "language_fr"     -> 103
      [] key = "language_pt"     -> 110
      [] key = "very_popular"    -> 112
      [] key = "popular"         -> 113
      [] key = "big_budget"      -> 114
      [] key = "small_budget"    -> 115
      [] key = "is_indie"        -> 117
      [] key = "is_saga"         -> 118
      [] key = "is_standalone"   -> 119
      [] key = "joker_title_a_d" -> 193
      [] key = "joker_title_e_h" -> 194
      [] key = "joker_title_m_p" -> 196
      [] OTHER                   -> 0

\* the places of language_en .. language_ru in the catalogue
LanguagePositions == 102..111

\* the language questions of the catalogue that the model leaves out
OmittedLanguageKeys ==
    {"language_ja", "language_es", "language_de", "language_it", "language_ko",
     "language_zh", "language_ru"}

(***************************************************************************)
(* Question quality.                                                       *)
(***************************************************************************)
\* -p*log2(p) for p = x/n, in 1/10000, rounded down (pools of up to 6 films)
NegPLog2P(x, n) ==
    CASE x = 0 \/ x = n      -> 0
      [] 2 * x = n           -> 5000
      [] 3 * x = n           -> 5283
      [] 3 * x = 2 * n       -> 3899
      [] 4 * x = n           -> 5000
      [] 4 * x = 3 * n       -> 3112
      [] 5 * x = n           -> 4643
      [] 5 * x = 2 * n       -> 5287
      [] 5 * x = 3 * n       -> 4421
      [] 5 * x = 4 * n       -> 2575
      [] 6 * x = n           -> 4308
      [] 6 * x = 5 * n       -> 2191

entropy_split(yes, no) ==
    LET n == yes + no
    IN  IF n = 0 THEN 0 ELSE NegPLog2P(yes, n) + NegPLog2P(no, n)

\* (yes, no, unk) of the predicate over the candidates
split_counts(candidates, q) ==
    LET count(r) == Cardinality({i \in DOMAIN candidates : predicate(q, candidates[i]) = r})
    IN  [yes |-> count("True"), no |-> count("False"), unk |-> count(None)]

\* x * num / den on fixed-point scores, as the float product, rounded toward 0
Scale(x, num, den) == IF x >= 0 THEN (x * num) \div den ELSE -(((-x) * num) \div den)

\* the hierarchy of boosters of Question.score, applied to the score raw of a
\* question with yes films answering True among n
Boosted(q, raw, yes, n) ==
    IF StartsWith(q, "language_") THEN Scale(raw, 120, 1)
    ELSE IF StartsWith(q, "validate_")
         THEN IF n <= 20 THEN Scale(raw, 80, 1)
              ELSE IF n <= 50 THEN Scale(raw, 60, 1) ELSE Scale(raw, 40, 1)
    ELSE IF StartsWithAny(q, {"director_", "dyn_director_"}) THEN Scale(raw, 2, 1)
    ELSE IF StartsWith(q, "franchise_") THEN Scale(raw, 18, 10)
    ELSE IF StartsWith(q, "char_") THEN Scale(raw, 15, 10)
    ELSE IF StartsWithAny(q, {"actor_", "dyn_actor_"})
         THEN IF 0 < yes /\ yes < n THEN Scale(raw, 14, 10) ELSE raw
    ELSE IF StartsWith(q, "dyn_keyword_")
         THEN IF n <= 30 THEN Scale(raw, 13, 10) ELSE raw
    ELSE IF StartsWithAny(q, {"location_", "event_", "object_"}) THEN Scale(raw, 125, 100)
    ELSE IF StartsWith(q, "joker_title_") /\ n <= 10 THEN Scale(raw, 12, 10)
    ELSE raw

\* Question.score from the split c of the n candidates
ScoreOfSplit(q, c, n) ==
    IF (c.yes = 0 /\ c.unk = 0) \/ (c.no = 0 /\ c.unk = 0) THEN -10000
    ELSE Boosted(q,
                 entropy_split(c.yes, c.no)
                 - (IF n = 0 THEN 5000 ELSE (5000 * c.unk) \div n),
                 c.yes, n)

\* Question.score: pools of the model are far below the 500-film sample
QuestionScore(q, candidates) ==
    ScoreOfSplit(q, split_counts(candidates, q), Len(candidates))

get_question_type(q) ==
    IF StartsWith(q, "validate_") THEN "validation"
    ELSE IF StartsWith(q, "language_") THEN "language"
    ELSE IF StartsWithAny(q, {"actor_", "dyn_actor_"}) THEN "actor"
    ELSE IF StartsWithAny(q, {"director_", "dyn_director_"}) THEN "director"
    ELSE IF StartsWith(q, "genre_") THEN "genre"
    ELSE IF StartsWithAny(q, {"franchise_", "char_"}) THEN "franchise"
    ELSE IF StartsWithAny(q, {"year_", "decade_", "after_", "before_"}) THEN "date"
    ELSE IF StartsWith(q, "dyn_keyword_") THEN "keyword"
    ELSE IF StartsWith(q, "runtime_") THEN "runtime"
    ELSE IF StartsWith(q, "joker_title_") THEN "title"
    ELSE IF StartsWithAny(q, {"big_budget", "small_budget", "box_office", "is_indie"})
         THEN "finance"
    ELSE IF StartsWithAny(q, {"popular", "very_popular"}) THEN "popularity"
    ELSE IF StartsWithAny(q, {"is_saga", "is_standalone", "is_adaptation", "based_on_",
                              "superhero"}) THEN "meta"
    ELSE IF StartsWithAny(q, {"is_american", "is_french", "is_european", "is_asian"})
         THEN "origin"
    ELSE IF StartsWithAny(q, {"is_animation", "is_live_action", "is_short", "is_feature"})
         THEN "format"
    ELSE IF StartsWith(q, "theme_") THEN "theme"
    ELSE "other"

\* recent[-window:]
LastN(s, window) == IF Len(s) <= window THEN s ELSE SubSeq(s, Len(s) - window + 1, Len(s))

CountOf(s, x) == Cardinality({i \in DOMAIN s : s[i] = x})

count_recent_type(state, q_type, window) ==
    CountOf(LastN(state.recent_question_types, window), q_type)

should_diversify(state, q, max_consecutive) ==
    LET q_type == get_question_type(q)
        last_5 == LastN(state.recent_question_types, 5)
    IN  IF q_type \in {"language", "validation"} THEN FALSE
        ELSE IF count_recent_type(state, q_type, max_consecutive) >= max_consecutive
             THEN TRUE
        ELSE /\ Len(state.recent_question_types) >= 5
             /\ Cardinality(Range(last_5)) < 3
             /\ CountOf(last_5, q_type) >= 2

(***************************************************************************)
(* Builders of dynamic questions.                                          *)
(***************************************************************************)
\* needs 10 to 500 candidates and the top film's credits and keywords:
\* nothing on the pools of the model
build_top_validation_questions(candidates, asked) == <<>>

\* counts the keywords of the pool: the films of the model have none
build_dynamic_keyword_questions(candidates, asked) == <<>>

\* counts the cast and the directors of the pool: the films of the model have none
build_dynamic_questions(candidates, asked) == <<>>

RECURSIVE DecadeQuestions(_, _, _)
DecadeQuestions(decades, years, asked) ==
    IF decades = <<>> THEN <<>>
    ELSE LET decade    == Head(decades)
             key       == "decade_" \o ToString(decade) \o "s"
             yes_count == Cardinality({i \in DOMAIN years :
                                          decade <= years[i] /\ years[i] < decade + 10})
             rest      == DecadeQuestions(Tail(decades), years, asked)
         IN  IF key \notin asked /\ 0 < yes_count /\ yes_count < Len(years)
             THEN <<Question(key, "decade_", <<"decade", decade>>, {}, {})>> \o rest
             ELSE rest

build_dynamic_year_questions(candidates, asked) ==
    LET withYear == {i \in DOMAIN candidates : candidates[i].year # NULL}
        yearOf(i) == Val(candidates[i].year)
        n        == Cardinality(withYear)
        \* sorted(years)[k], 0-based
        nth(k)   == CHOOSE y \in {yearOf(i) : i \in withYear} :
                       /\ Cardinality({i \in withYear : yearOf(i) <= y}) >= k + 1
                       /\ Cardinality({i \in withYear : yearOf(i) < y}) <= k
        years    == [k \in 1..n |-> nth(k - 1)]
        min_year == years[1]
        max_year == years[n]
        median_year == years[(n \div 2) + 1]
        keyMedian == "before_year_" \o ToString(median_year)
        keyExact  == "exact_year_pivot_" \o ToString(median_year)
        before   == Cardinality({k \in 1..n : years[k] < median_year})
        after    == Cardinality({k \in 1..n : years[k] >= median_year})
        decades  == SortedInts({(years[k] \div 10) * 10 : k \in 1..n})
    IN  IF Len(candidates) > 200 \/ Len(candidates) < 2 THEN <<>>
        ELSE IF n < 2 THEN <<>>
        ELSE IF min_year = max_year THEN <<>>
        ELSE (IF min_year < median_year /\ keyMedian \notin asked
              THEN <<Question(keyMedian, "before_", <<"before_year", median_year>>, {}, {})>>
              ELSE <<>>)
             \o DecadeQuestions(decades, years, asked)
             \o (IF Len(candidates) <= 10 /\ min_year < max_year /\ keyExact \notin asked
                    /\ before > 0 /\ after > 0
                 THEN <<Question(keyExact, "exact_year_pivot_",
                                 <<"after_year", median_year>>, {}, {})>>
                 ELSE <<>>)

RECURSIVE BinaryTitleQuestions(_, _, _, _)
\* the loop over the films of the pool; added is added_keys
BinaryTitleQuestions(rest, candidates, asked, added) ==
    IF rest = <<>> THEN <<>>
    ELSE LET m      == Head(rest)
             n      == Len(candidates)
             letter == RawFirst(m)
             keyL   == "bin_title_letter_" \o letter
             yesL   == Cardinality({i \in DOMAIN candidates : RawFirst(candidates[i]) = letter})
             addL   == keyL \notin asked /\ keyL \notin added /\ 0 < yesL /\ yesL < n
             wc     == RawWords(m)
             keyW   == "bin_title_words_" \o ToString(wc)
             yesW   == Cardinality({i \in DOMAIN candidates : RawWords(candidates[i]) = wc})
             addW   == wc >= 1 /\ keyW \notin asked /\ keyW \notin added
                       /\ 0 < yesW /\ yesW < n
             added2 == added \cup (IF addL THEN {keyL} ELSE {}) \cup (IF addW THEN {keyW} ELSE {})
         IN  (IF addL THEN <<Question(keyL, "bin_title_", <<"title_letter", letter>>, {}, {})>>
              ELSE <<>>)
             \o (IF addW THEN <<Question(keyW, "bin_title_", <<"title_words", wc>>, {}, {})>>
                 ELSE <<>>)
             \o BinaryTitleQuestions(Tail(rest), candidates, asked, added2)

\* the actor and director parts need credits, which the films of the model lack
build_binary_disambiguation_questions(candidates, asked) ==
    IF Len(candidates) < 2 \/ Len(candidates) > 15 THEN <<>>
    ELSE BinaryTitleQuestions(candidates, candidates, asked, {})

\* validation + binary + keywords + people + years + static
build_all_questions(state) ==
    build_top_validation_questions(state.candidates, state.asked)
    \o build_binary_disambiguation_questions(state.candidates, state.asked)
    \o build_dynamic_keyword_questions(state.candidates, state.asked)
    \o build_dynamic_questions(state.candidates, state.asked)
    \o build_dynamic_year_questions(state.candidates, state.asked)
    \o default_questions

(***************************************************************************)
(* The selector.                                                           *)
(***************************************************************************)
contradictions(key) ==
    CASE key = "big_budget"     -> "small_budget"
      [] key = "small_budget"   -> "big_budget"
      [] key = "runtime_lt_90"  -> "runtime_ge_150"
      [] key = "runtime_ge_150" -> "runtime_lt_90"
      [] key = "is_animation"   -> "is_live_action"
      [] key = "is_live_action" -> "is_animation"
      [] key = "is_saga"        -> "is_standalone"
      [] key = "is_standalone"  -> "is_saga"
      [] key = "after_1980"     -> "before_1970"
      [] key = "after_2000"     -> "before_1990"
      [] key = "after_2020"     -> "before_2010"
      [] OTHER                  -> None

\* the keys q of the catalogue with q.startswith("joker_title_")
JokerKeys == {default_questions[i].key :
                 i \in {j \in DOMAIN default_questions :
                           StartsWith(default_questions[j], "joker_title_")}}

\* the filter of choose_best_question
Eligible(q, asked) ==
    LET jokers_used == Cardinality(asked \cap JokerKeys)
    IN  /\ q.key \notin asked
        /\ q.requires \subseteq asked
        /\ q.excludes \cap asked = {}
        /\ ~(StartsWith(q, "joker_title_") /\ jokers_used >= 1)
        /\ contradictions(q.key) \notin asked

RECURSIVE SortByScoreDesc(_)
\* list.sort(key=score, reverse=True) on <<question, score>> pairs: stable
SortByScoreDesc(scored) ==
    IF scored = <<>> THEN <<>>
    ELSE LET best == CHOOSE i \in DOMAIN scored :
                        /\ \A j \in DOMAIN scored : scored[j][2] <= scored[i][2]
                        /\ \A j \in 1..(i - 1) : scored[j][2] < scored[i][2]
             rest == [k \in 1..(Len(scored) - 1) |->
                        IF k < best THEN scored[k] ELSE scored[k + 1]]
         IN  <<scored[best]>> \o SortByScoreDesc(rest)

\* the places in the catalogue of the questions of the model and of the
\* language questions
KnownPositions ==
    LanguagePositions
        \cup {CataloguePosition(default_questions[i].key) : i \in DOMAIN default_questions}

\* the places of joker_title_i_l, joker_title_q_t and joker_title_u_z, which
\* the model leaves out
OmittedJokerPositions == {195, 197, 198}

\* the number of valid questions among those of the catalogue left out of the
\* model that are not language questions: none has requires or excludes and
\* none contradicts a question of the model, so all of them are valid but
\* the jokers once a joker is asked
OmittedOthers(asked) ==
    CatalogueSize - Cardinality(KnownPositions)
    - (IF asked \cap JokerKeys = {} THEN 0 ELSE Cardinality(OmittedJokerPositions))

\* how many of them come before place p of the catalogue
OmittedBefore(p) == (p - 1) - Cardinality({x \in KnownPositions : x < p})

\* len(valid_questions) above which choose_best_question samples
SampleSize == 200

\* key.startswith(("validate_", "language_"))
IsPriority(question) == StartsWithAny(question, {"validate_", "language_"})

\* the place of questions[i] in rest, the valid questions that are not
\* priority ones: those of the model before it, and, for a question of the
\* catalogue (the end of the list), those left out of the model before it
RestRank(questions, rest, i) ==
    Cardinality({j \in rest : j <= i})
    + (IF i > Len(questions) - Len(default_questions)
       THEN OmittedBefore(CataloguePosition(questions[i].key))
       ELSE 0)

\* priority_qs + rest[:200 - len(priority_qs)], without the questions the
\* model leaves out: omitted is the number of those among priority_qs
Sample(questions, priority, rest, omitted) ==
    SelectIndices(questions, priority)
    \o SelectIndices(questions,
                     {i \in rest : RestRank(questions, rest, i)
                                      <= SampleSize - (Cardinality(priority) + omitted)})

\* valid_questions once sampled; valid holds the indices of the valid
\* questions of the model, omitted and others are the numbers of valid
\* questions left out of the model, language ones and other ones
Sampled(questions, valid, omitted, others) ==
    IF Cardinality(valid) + omitted + others > SampleSize
    THEN Sample(questions, {i \in valid : IsPriority(questions[i])},
                {i \in valid : ~IsPriority(questions[i])}, omitted)
    ELSE SelectIndices(questions, valid)

\* valid_questions of choose_best_question, as they are scored
valid_questions(questions, asked) ==
    Sampled(questions, {i \in DOMAIN questions : Eligible(questions[i], asked)},
            Cardinality(OmittedLanguageKeys \ asked), OmittedOthers(asked))

\* the scored list of choose_best_question, sorted: its first element is the
\* question returned, or one of the first three on the first question
\* s *= 0.1 when should_diversify
Diversified(state, question, s) ==
    IF s > 0 /\ should_diversify(state, question, 3) THEN Scale(s, 1, 10) ELSE s

\* [(q, s) for q in valid if s > 0]
\* scored without the test s > 0: every valid question is kept
KeepPositive_all(valid, candidates, state) ==
    [i \in DOMAIN valid |->
        <<valid[i], Diversified(state, valid[i], QuestionScore(valid[i], candidates))>>]

KeepPositive(valid, candidates, state) ==
    SelectIndices([i \in DOMAIN valid |->
                     <<valid[i],
                       Diversified(state, valid[i], QuestionScore(valid[i], candidates))>>],
                  {i \in DOMAIN valid : QuestionScore(valid[i], candidates) > 0})

ScoredQuestions(candidates, questions, asked, state) ==
    SortByScoreDesc(KeepPositive(valid_questions(questions, asked), candidates, state))

\* the selector returning the last question of the scored list
TopChoice_last(scored, is_first_question) ==
    IF scored = <<>> THEN {} ELSE {scored[Len(scored)][1]}

\* the questions choose_best_question may return: {} stands for None
TopChoice(scored, is_first_question) ==
    IF scored = <<>> THEN {}
    ELSE IF is_first_question /\ Len(scored) >= 3
         THEN {scored[i][1] : i \in 1..3}
         ELSE {scored[1][1]}

choose_best_question(candidates, questions, asked, is_first_question, state) ==
    TopChoice(ScoredQuestions(candidates, questions, asked, state), is_first_question)

(***************************************************************************)
(* EngineState and the answer applicator.                                  *)
(***************************************************************************)
\* d.get(k, default)
Get(d, k, default) == IF k \in DOMAIN d THEN d[k] ELSE default

\* {k: v for k, v in d.items() if k in keep}
Restrict(d, keep) == [k \in DOMAIN d \cap keep |-> d[k]]

\* d after d[k] = f[k] for every key k of f
Assign(d, f) ==
    [k \in DOMAIN d \cup DOMAIN f |-> IF k \in DOMAIN f THEN f[k] ELSE d[k]]

Ids(candidates) == {movie_id(candidates[i]) : i \in DOMAIN candidates}

init_state(movies) ==
    [candidates            |-> movies,
     asked                 |-> {},
     scores                |-> [mid \in Ids(movies) |-> 0],
     strikes               |-> [mid \in {} |-> 0],
     question_count        |-> 0,
     guess_cooldown        |-> 0,
     top_streak_mid        |-> NULL,
     top_streak_len        |-> 0,
     consecutive_guesses   |-> 0,
     recent_question_types |-> <<>>]

\* a faulty snapshot_state: recent_question_types is not copied
snapshot_state_without_types(state) ==
    [state EXCEPT !.recent_question_types = <<>>]

\* copies of the lists, set and dicts: values here, so the record itself
snapshot_state(state) ==
    [candidates            |-> state.candidates,
     asked                 |-> state.asked,
     scores                |-> state.scores,
     strikes               |-> state.strikes,
     question_count        |-> state.question_count,
     guess_cooldown        |-> state.guess_cooldown,
     top_streak_mid        |-> state.top_streak_mid,
     top_streak_len        |-> state.top_streak_len,
     consecutive_guesses   |-> state.consecutive_guesses,
     recent_question_types |-> state.recent_question_types]

\* key_func of sort_candidates is (-score, -popularity): TRUE when a sorts before b
KeyLess(scores, a, b) ==
    LET sa == Get(scores, movie_id(a), 0)
        sb == Get(scores, movie_id(b), 0)
    IN  sa > sb \/ (sa = sb /\ a.popularity > b.popularity)

RECURSIVE StableSort(_, _)
\* list.sort(key=key_func): stable
StableSort(candidates, scores) ==
    IF candidates = <<>> THEN <<>>
    ELSE LET first == CHOOSE i \in DOMAIN candidates :
                         /\ \A j \in DOMAIN candidates :
                               ~KeyLess(scores, candidates[j], candidates[i])
                         /\ \A j \in 1..(i - 1) :
                               KeyLess(scores, candidates[i], candidates[j])
             rest  == [k \in 1..(Len(candidates) - 1) |->
                         IF k < first THEN candidates[k] ELSE candidates[k + 1]]
         IN  <<candidates[first]>> \o StableSort(rest, scores)

\* a faulty sort_candidates: the list is left as it is
sort_candidates_skipped(state) == state

sort_candidates(state) ==
    [state EXCEPT !.candidates = StableSort(state.candidates, state.scores)]

hard_elimination_prefixes ==
    {"franchise_", "language_", "director_", "joker_title_", "char_", "decade_",
     "year_", "validate_"}

hard_elimination_keys ==
    {"is_animation", "is_live_action", "is_short", "is_feature", "runtime_lt_90",
     "runtime_ge_150", "before_2000", "after_2010", "is_saga", "is_standalone",
     "big_budget", "small_budget", "is_american", "is_french", "is_european",
     "is_asian"}

is_hard_elimination(q) ==
    q.key \in hard_elimination_keys \/ StartsWithAny(q, hard_elimination_prefixes)

yes_boost(q) ==
    IF StartsWith(q, "validate_") THEN 80
    ELSE IF StartsWithAny(q, {"director_", "dyn_director_"}) THEN 70
    ELSE IF StartsWithAny(q, {"franchise_", "char_"}) THEN 60
    ELSE IF StartsWithAny(q, {"actor_", "dyn_actor_"}) THEN 50
    ELSE IF StartsWithAny(q, {"language_", "decade_", "year_"}) THEN 50
    ELSE IF StartsWith(q, "genre_") THEN 30
    ELSE 50

no_boost(q) ==
    IF StartsWith(q, "validate_") THEN 40
    ELSE IF StartsWithAny(q, {"director_", "franchise_", "char_"}) THEN 40
    ELSE 30

\* a faulty FilmsAnswering: every film is taken, whatever it answers
FilmsAnswering_every(candidates, q, results) == candidates

\* the films of candidates whose answer to q is in results, order kept
FilmsAnswering(candidates, q, results) ==
    SelectIndices(candidates,
                  {i \in DOMAIN candidates : predicate(q, candidates[i]) \in results})

FilmOf(candidates, mid) ==
    candidates[CHOOSE i \in DOMAIN candidates : movie_id(candidates[i]) = mid]

\* a faulty y and n branch: the scores change and no film is dropped
EliminateBranch_scores_only(state, q, boostOn, boost, unkDelta) ==
    LET delta(mid) == Get(state.scores, mid, 0)
                      + (IF predicate(q, FilmOf(state.candidates, mid)) = boostOn
                         THEN boost ELSE unkDelta)
    IN  [state EXCEPT !.scores = Assign(state.scores, [mid \in Ids(state.candidates) |-> delta(mid)])]

\* the y and n branches: boostOn is the kept answer, unkDelta the change for None
EliminateBranch(state, q, boostOn, boost, unkDelta) ==
    LET to_keep == FilmsAnswering(state.candidates, q, {boostOn, None})
        remaining_ids == Ids(to_keep)
        delta(mid) == Get(state.scores, mid, 0)
                      + (IF predicate(q, FilmOf(to_keep, mid)) = boostOn
                         THEN boost ELSE unkDelta)
    IN  [state EXCEPT
            !.candidates = to_keep,
            !.scores     = Restrict(Assign(state.scores, [mid \in remaining_ids |-> delta(mid)]),
                                    remaining_ids),
            !.strikes    = Restrict(state.strikes, remaining_ids)]

\* the py and pn branches: gainOn is the answer that gains
ProbablyBranch(state, q, gainOn, loseOn) ==
    LET hard    == is_hard_elimination(q)
        cands   == state.candidates
        gain    == Ids(FilmsAnswering(cands, q, {gainOn}))
        lose    == Ids(FilmsAnswering(cands, q, {loseOn}))
        delta(mid) == Get(state.scores, mid, 0)
                      + (IF mid \in gain THEN (IF hard THEN 20 ELSE 10)
                         ELSE (IF hard THEN -25 ELSE -10))
        strike(mid) == Get(state.strikes, mid, 0) + 1
    IN  [state EXCEPT
            !.scores  = Assign(state.scores, [mid \in gain \cup lose |-> delta(mid)]),
            !.strikes = IF hard THEN Assign(state.strikes, [mid \in lose |-> strike(mid)])
                        ELSE state.strikes]

UnknownBranch(state, q) ==
    LET unk == Ids(FilmsAnswering(state.candidates, q, {None}))
        delta(mid) == Get(state.scores, mid, 0) + 2
    IN  [state EXCEPT !.scores = Assign(state.scores, [mid \in unk |-> delta(mid)])]

\* elimination by strikes, skipped after a hard-elimination question
StrikeElimination(state, q, max_strikes) ==
    LET to_remove == {mid \in Ids(state.candidates) :
                         Get(state.strikes, mid, 0) >= max_strikes}
    IN  IF is_hard_elimination(q) \/ to_remove = {} THEN state
        ELSE [state EXCEPT
                !.candidates = SeqFilter(state.candidates,
                                  {m \in Range(state.candidates) : movie_id(m) \notin to_remove}),
                !.scores     = Restrict(state.scores, DOMAIN state.scores \ to_remove),
                !.strikes    = Restrict(state.strikes, DOMAIN state.strikes \ to_remove)]

\* the branch of update_state_with_answer for the answer ans
AnswerBranch(state, q, ans) ==
    LET hard == is_hard_elimination(q)
    IN  CASE ans = "y"  -> EliminateBranch(state, q, "True", yes_boost(q),
                                           IF hard THEN -20 ELSE -5)
          [] ans = "n"  -> EliminateBranch(state, q, "False", no_boost(q),
                                           IF hard THEN -10 ELSE 3)
          [] ans = "py" -> ProbablyBranch(state, q, "True", "False")
          [] ans = "pn" -> ProbablyBranch(state, q, "False", "True")
          [] ans = "?"  -> UnknownBranch(state, q)

update_state_with_answer(state, q, ans, max_strikes) ==
    sort_candidates(StrikeElimination(AnswerBranch(state, q, ans), q, max_strikes))

(***************************************************************************)
(* Convergence: guess mode, elimination of a film, targeted questions.     *)
(***************************************************************************)
score_of(state, m) == Get(state.scores, movie_id(m), 0)

\* CAS 2 of should_enter_guess_mode; s1 / s2 >= 2.0 is s1 >= 2 * s2 for s2 > 0
RatioRule(state) ==
    /\ Len(state.candidates) >= 2
    /\ state.question_count >= 5
    /\ LET s1 == score_of(state, state.candidates[1])
           s2 == score_of(state, state.candidates[2])
       IN  \/ s2 > 0 /\ s1 >= 2 * s2
           \/ s2 <= 0 /\ s1 >= 100

\* CAS 4 reads candidates[0] of a pool it has not checked to be non-empty
HighScoreRuleApplies(state) ==
    Len(state.candidates) <= 5 /\ state.question_count >= 7

\* TRUE when should_enter_guess_mode raises IndexError
should_enter_guess_mode_raises(state) ==
    /\ state.candidates = <<>>
    /\ state.top_streak_len < 10
    /\ HighScoreRuleApplies(state)

should_enter_guess_mode(state) ==
    \/ Len(state.candidates) = 1
    \/ RatioRule(state)
    \/ state.top_streak_len >= 10
    \/ /\ HighScoreRuleApplies(state)
       /\ state.candidates # <<>>
       /\ score_of(state, state.candidates[1]) >= 150

eliminate_movie(state, mid) ==
    [state EXCEPT
        !.candidates = SeqFilter(state.candidates,
                          {m \in Range(state.candidates) : movie_id(m) # mid}),
        !.scores     = Restrict(state.scores, DOMAIN state.scores \ {mid}),
        !.strikes    = Restrict(state.strikes, DOMAIN state.strikes \ {mid})]

\* the only filter of get_discriminating_questions
NotAsked(q, asked) == q.key \notin asked

\* [(q, s) for q in available if s > 0.1]
KeepUseful(available, candidates) ==
    SelectIndices([i \in DOMAIN available |->
                     <<available[i], QuestionScore(available[i], candidates)>>],
                  {i \in DOMAIN available : QuestionScore(available[i], candidates) > 1000})

\* [q for q, _ in scored[:count]]
FirstQuestions(scored, count) == [i \in DOMAIN Take(scored, count) |-> scored[i][1]]

\* [q for q in questions if q.key not in asked]
Available(questions, asked) ==
    SelectIndices(questions, {i \in DOMAIN questions : NotAsked(questions[i], asked)})

get_discriminating_questions(candidates, asked, count) ==
    FirstQuestions(
        SortByScoreDesc(
            KeepUseful(Available(default_questions
                                 \o build_dynamic_keyword_questions(candidates, asked)
                                 \o build_dynamic_questions(candidates, asked), asked),
                       candidates)),
        count)

(***************************************************************************)
(* Pools and configurations explored.  A pool is what discover_movies      *)
(* returns: the rows of the movies table by descending popularity.         *)
(***************************************************************************)
\* two blockbusters of equal popularity, a Portuguese animation, a French
\* comedy and a row with every optional column NULL
PoolMixed ==
    << Film(1, Title("A", "A", 1), Some(1986), 90, "en", {"Action"}, 60, TRUE),
       Film(2, Title("T", "M", 2), Some(1999), 90, "en", {"Action"}, 60, TRUE),
       Film(3, Title("C", "C", 3), Some(2002), 60, "pt", {"Animation", "Comedy"}, 8, FALSE),
       Film(4, Title("E", "E", 1), Some(2015), 40, "fr", {"Comedy"}, 3, FALSE),
       Film(5, NULL, NULL, 40, None, {}, 0, FALSE) >>

\* English live-action films that differ by year, budget and title
PoolEnglish ==
    << Film(11, Title("B", "B", 2), Some(1985), 70, "en", {"Action"}, 60, FALSE),
       Film(12, Title("D", "D", 1), Some(1995), 70, "en", {"Action"}, 30, FALSE),
       Film(13, Title("F", "F", 1), Some(1996), 45, "en", {"Action"}, 8, FALSE),
       Film(14, Title("G", "G", 2), Some(2005), 45, "en", {"Action"}, 7, FALSE),
       Film(15, Title("H", "H", 1), Some(2006), 45, "en", {"Action"}, 0, FALSE) >>

\* English films of one year and one title that differ by popularity,
\* genre, budget and collection
PoolBudget ==
    << Film(31, Title("A", "A", 1), Some(1995), 90, "en", {"Action", "Comedy"}, 60, FALSE),
       Film(32, Title("A", "A", 1), Some(1995), 90, "en", {"Action", "Comedy"}, 60, TRUE),
       Film(33, Title("A", "A", 1), Some(1995), 90, "en", {"Action"}, 3, FALSE),
       Film(34, Title("A", "A", 1), Some(1995), 60, "en", {"Action"}, 3, FALSE),
       Film(35, Title("A", "A", 1), Some(1995), 40, "en", {"Action"}, 60, FALSE) >>

\* two films that differ on every column
PoolPair ==
    << Film(21, Title("A", "A", 1), Some(1985), 90, "en", {"Animation", "Action"}, 60, TRUE),
       Film(22, Title("E", "E", 2), Some(2015), 40, "fr", {"Comedy"}, 3, FALSE) >>

\* four films that no question tells apart, and one that differs from them
\* on every column but the title
PoolTwins ==
    << Film(51, Title("A", "A", 1), Some(1995), 90, "en", {"Action"}, 60, FALSE),
       Film(52, Title("A", "A", 1), Some(1995), 90, "en", {"Action"}, 60, FALSE),
       Film(53, Title("A", "A", 1), Some(1995), 90, "en", {"Action"}, 60, FALSE),
       Film(54, Title("A", "A", 1), Some(1995), 90, "en", {"Action"}, 60, FALSE),
       Film(55, Title("A", "A", 1), Some(2015), 40, "fr", {"Animation", "Comedy"}, 3, TRUE) >>

\* a table of one row
PoolSingle ==
    << Film(41, Title("A", "A", 1), Some(1995), 90, "en", {"Action"}, 60, FALSE) >>

AllAnswers == {"y", "n", "?", "py", "pn"}

\* main's configuration after its clamps: max(1, max_strikes),
\* max(2, max_consecutive_guesses); guess_cooldown is taken as given
Args(guess_cooldown, max_strikes, max_consecutive_guesses) ==
    [guess_cooldown          |-> guess_cooldown,
     max_strikes             |-> IF max_strikes < 1 THEN 1 ELSE max_strikes,
     max_consecutive_guesses |-> IF max_consecutive_guesses < 2 THEN 2
                                 ELSE max_consecutive_guesses]

\* the games explored: a pool, a command line, and the answers the player uses
Scenarios ==
    { [movies |-> PoolMixed,   args |-> Args(2, 3, 4), answers |-> AllAnswers,
       limit |-> MaxQuestionsMixed],
      [movies |-> PoolEnglish, args |-> Args(0, 3, 2), answers |-> {"py", "pn"},
       limit |-> MaxQuestionsEnglish],
      [movies |-> PoolBudget,  args |-> Args(0, 3, 2), answers |-> {"py", "pn"},
       limit |-> MaxQuestionsBudget],
      [movies |-> PoolPair,    args |-> Args(2, 1, 4), answers |-> {"?", "py"},
       limit |-> MaxQuestionsPair],
      [movies |-> PoolTwins,   args |-> Args(0, 9, 2), answers |-> {"n", "py", "pn"},
       limit |-> MaxQuestionsTwins],
      [movies |-> PoolSingle,  args |-> Args(2, 3, 4), answers |-> AllAnswers,
       limit |-> MaxQuestionsMixed],
      \* --guess-cooldown -1: argparse takes any int and main does not clamp it
      [movies |-> PoolPair,    args |-> Args(-1, 3, 4), answers |-> {"py"},
       limit |-> MaxQuestionsPair],
      \* a cooldown of one question between two guesses
      [movies |-> PoolEnglish, args |-> Args(1, 3, 2), answers |-> {"py", "pn"},
       limit |-> MaxQuestionsEnglish] }

(***************************************************************************)
(* State.                                                                  *)
(***************************************************************************)
VARIABLES
    movies,             \* the pool discover_movies returned
    args,               \* the command line of main
    answers,            \* the answers the player of this game uses
    limit,              \* the number of answers explored in this game
    state,              \* the EngineState
    history,            \* main's stack of snapshots
    pc,                 \* where main is: the prompt it waits at, or how it ended
    q,                  \* the question offered: NULL or Some(question)
    targeted_questions, \* the list of the targeted-question loop
    ti,                 \* the position of that loop in its list
    current_qkey,       \* HTTP session: NULL or Some(key)
    proposed_film_id,   \* HTTP session: NULL or Some(id)
    response,           \* HTTP: the kind of the last response
    unsolicited,        \* HTTP: requests sent that the last response did not invite
    lastKind,           \* history variable: the last operation that changed state
    lastQ,              \* history variable: the question of that operation
    lastAns,            \* history variable: its answer
    before,             \* history variable: the EngineState it started from (for an
                        \* undo, the EngineState before the answer it takes back)
    trail,              \* history variable: the EngineState before each answer on the stack
    turns,              \* history variable: prompts since the last rejected guess
    langYes,            \* history variable: depth of the stack at a Yes to language_*
                        \* that no undo has taken back; 0 when there is none
    langYesEver,        \* history variable: some language_* question was answered Yes
    akinator,           \* api_server: the AkinatorSession of the session
    result,             \* api_server: the dict the last call of the session returned
    lastResponse,       \* history variable: the text of the last answer sent to it
    akinatorBefore,     \* history variable: the AkinatorSession before that answer
    clock,              \* api_server: datetime.now(), in half hours
    sessions,           \* api_server: NULL, or Some of created_at and last_activity
                        \* of the session, whose "akinator" is the variable akinator
    requests,           \* app_akinator: the /answer requests its threads are serving
    game_state,         \* app_akinator: the dict of sessions, game id -> NULL or Some(session)
    DETAILS_CACHE,      \* engine_akinator: the details cached, film id -> details
    call,               \* history variable: the last request to game_state and its reply
    served              \* history variable: the requests served so far per game id

vars == <<movies, args, answers, limit, state, history, pc, q, targeted_questions, ti,
          current_qkey, proposed_film_id, response, unsolicited,
          lastKind, lastQ, lastAns, before, trail, turns, langYes, langYesEver,
          akinator, result, lastResponse, akinatorBefore, clock, sessions, requests,
          game_state, DETAILS_CACHE, call, served>>

config  == <<movies, args, answers, limit>>
cliVars == <<history, pc, q, targeted_questions, ti>>
httpVars == <<current_qkey, proposed_film_id, response, unsolicited>>
aiVars == <<akinator, result, lastResponse, akinatorBefore, clock, sessions>>
gameVars == <<game_state, DETAILS_CACHE, call, served>>

\* the game ids the sessions of game_state are stored under
GameIds == {"a", "b"}

\* a reply of app_akinator: its kind, and the question key or the film it carries
Reply(kind, key, film) == [kind |-> kind, key |-> key, film |-> film]

\* no request yet
NoCall ==
    [gid |-> "none", op |-> "none", key |-> "none", ui_answer |-> "none",
     confirmed |-> FALSE, reply |-> Reply("none", "none", 0)]

\* the threads of the Flask server that serve one session at the same time
Threads == {1, 2}

\* a thread that serves no request
NoRequest ==
    [at |-> "idle", key |-> "none", ui_answer |-> "none", question |-> NULL,
     candidates |-> <<>>, to_keep |-> <<>>]

\* AkinatorSession.__init__
NewSession == [is_initialized |-> FALSE, question_count |-> 0, conversation_history |-> <<>>]

Init ==
    /\ \E s \in Scenarios :
          /\ movies = s.movies
          /\ args = s.args
          /\ answers = s.answers
          /\ limit = s.limit
    /\ state = init_state(movies)
    /\ history = <<>>
    /\ pc = "start"
    /\ q = NULL
    /\ targeted_questions = <<>>
    /\ ti = 0
    /\ current_qkey = NULL
    /\ proposed_film_id = NULL
    /\ response = "none"
    /\ unsolicited = 0
    /\ lastKind = "init"
    /\ lastQ = NULL
    /\ lastAns = "none"
    /\ before = state
    /\ trail = <<>>
    /\ turns = -1
    /\ langYes = 0
    /\ langYesEver = FALSE
    /\ akinator = NewSession
    /\ result = [status |-> "none", result |-> "none", action |-> "none"]
    /\ lastResponse = "none"
    /\ akinatorBefore = akinator
    /\ clock = 0
    /\ sessions = NULL
    /\ requests = [t \in Threads |-> NoRequest]
    /\ game_state = [g \in GameIds |-> NULL]
    /\ DETAILS_CACHE = <<>>
    /\ call = NoCall
    /\ served = [g \in GameIds |-> 0]

(***************************************************************************)
(* main: the command-line game.  pc is "start" before the setup, "loop" at *)
(* the top of the while loop, "check" at the guess test, the name of the   *)
(* prompt main waits at ("targeted", "guess", "manual", "question",        *)
(* "streak"), or how main ended ("found", "failed", "crashed").            *)
(***************************************************************************)
Last(s) == s[Len(s)]
Front(s) == SubSeq(s, 1, Len(s) - 1)

\* a question is shown to the player
CountTurn == IF turns = -1 THEN -1 ELSE IF turns < MaxTurns THEN turns + 1 ELSE turns

NoHistoryChange == UNCHANGED <<lastKind, lastQ, lastAns, before, trail, langYes, langYesEver>>

\* the streak fields main sets on the sorted initial state
TrackTop(sorted) ==
    [sorted EXCEPT
        !.top_streak_mid = IF sorted.candidates # <<>>
                           THEN Some(movie_id(sorted.candidates[1])) ELSE NULL,
        !.top_streak_len = 0]

\* the EngineState main enters its loop with
SetUp(ms) == TrackTop(sort_candidates(init_state(ms)))

\* the setup of main before its loop
Start ==
    /\ pc = "start"
    /\ state' = SetUp(movies)
    /\ history' = <<>>
    /\ pc' = "loop"
    /\ before' = state'
    /\ UNCHANGED <<config, aiVars, gameVars, requests, q, targeted_questions, ti, httpVars,
                   lastKind, lastQ, lastAns, trail, turns, langYes, langYesEver>>

\* the targeted-question loop reaches position i of list with EngineState st:
\* it stops at the end of the list or once consecutive_guesses is below the
\* maximum, and asks list[i] otherwise
TargetedLoop(list, i, st) ==
    IF i > Len(list) \/ st.consecutive_guesses < args.max_consecutive_guesses
    THEN /\ pc' = "check"
         /\ q' = NULL
         /\ targeted_questions' = <<>>
         /\ ti' = 0
         /\ turns' = turns
    ELSE /\ pc' = "targeted"
         /\ q' = Some(list[i])
         /\ targeted_questions' = list
         /\ ti' = i
         /\ turns' = CountTurn

\* the top of the while loop, down to the targeted-question mode
LoopTop ==
    /\ pc = "loop"
    /\ IF state.candidates = <<>>
       THEN /\ pc' = "failed"
            /\ UNCHANGED <<q, targeted_questions, ti, turns>>
       ELSE IF Len(state.candidates) = 1
       THEN /\ pc' = "found"
            /\ UNCHANGED <<q, targeted_questions, ti, turns>>
       ELSE IF state.consecutive_guesses >= args.max_consecutive_guesses
       THEN TargetedLoop(get_discriminating_questions(state.candidates, state.asked, 3),
                         1, state)
       ELSE /\ pc' = "check"
            /\ UNCHANGED <<q, targeted_questions, ti, turns>>
    /\ UNCHANGED <<config, aiVars, gameVars, requests, state, history, httpVars>>
    /\ NoHistoryChange

\* an answer other than u in the targeted-question loop
TargetedAnswer(ans) ==
    /\ pc = "targeted"
    /\ state.question_count < limit
    /\ LET tq == Val(q)
           s1 == [state EXCEPT
                     !.asked = @ \cup {tq.key},
                     !.question_count = @ + 1,
                     !.consecutive_guesses = 0,
                     !.guess_cooldown = IF @ > 0 THEN @ - 1 ELSE @]
           s2 == update_state_with_answer(s1, tq, ans, args.max_strikes)
       IN  /\ history' = Append(history, snapshot_state(state))
           /\ state' = s2
           /\ TargetedLoop(targeted_questions, ti + 1, s2)
           /\ langYes' = IF ans = "y" /\ StartsWith(tq, "language_") /\ langYes = 0
                         THEN Len(history) + 1 ELSE langYes
           /\ langYesEver' = (langYesEver \/ (ans = "y" /\ StartsWith(tq, "language_")))
    /\ lastKind' = "answer"
    /\ lastQ' = q
    /\ lastAns' = ans
    /\ before' = state
    /\ trail' = Append(trail, state)
    /\ UNCHANGED <<config, aiVars, gameVars, requests, httpVars>>

\* u in the targeted-question loop: either way the loop moves on to the next
\* question of its list
TargetedUndo ==
    /\ pc = "targeted"
    /\ IF history = <<>>
       THEN /\ TargetedLoop(targeted_questions, ti + 1, state)
            /\ UNCHANGED <<state, history>>
            /\ NoHistoryChange
       ELSE /\ state' = Last(history)
            /\ history' = Front(history)
            /\ TargetedLoop(targeted_questions, ti + 1, Last(history))
            /\ lastKind' = "undo"
            /\ lastQ' = NULL
            /\ lastAns' = "u"
            /\ before' = Last(trail)
            /\ trail' = Front(trail)
            /\ langYes' = IF langYes > Len(history) - 1 THEN 0 ELSE langYes
            /\ UNCHANGED langYesEver
    /\ UNCHANGED <<config, aiVars, gameVars, requests, httpVars>>

\* the questions main merges for the selector
merged_questions(st) ==
    build_top_validation_questions(st.candidates, st.asked)
    \o build_binary_disambiguation_questions(st.candidates, st.asked)
    \o build_dynamic_keyword_questions(st.candidates, st.asked)
    \o build_dynamic_questions(st.candidates, st.asked)
    \o build_dynamic_year_questions(st.candidates, st.asked)
    \o default_questions

\* main after choose_best_question returned one of offered, or None
Offer(offered) ==
    IF offered = {}
    THEN /\ pc' = IF Len(state.candidates) = 1 THEN "found" ELSE "manual"
         /\ UNCHANGED <<q, turns>>
    ELSE /\ \E x \in offered : q' = Some(x)
         /\ pc' = "question"
         /\ turns' = CountTurn

\* the guess test and, when main does not guess, the selection of a question
GuessCheck ==
    /\ pc = "check"
    /\ IF should_enter_guess_mode_raises(state)
       THEN pc' = "crashed" /\ UNCHANGED <<q, turns>>
       ELSE IF should_enter_guess_mode(state) /\ state.guess_cooldown = 0
       THEN /\ pc' = IF state.candidates = <<>> THEN "crashed" ELSE "guess"
            /\ UNCHANGED <<q, turns>>
       ELSE Offer(choose_best_question(state.candidates, merged_questions(state),
                                       state.asked, state.question_count = 0, state))
    /\ UNCHANGED <<config, aiVars, gameVars, requests, state, history, targeted_questions, ti, httpVars>>
    /\ NoHistoryChange

\* a rejected guess that leaves the cooldown as it was
RejectGuess_unarmed(st, mid) ==
    LET s1 == sort_candidates(eliminate_movie(st, mid))
    IN  [s1 EXCEPT
            !.top_streak_mid = IF s1.candidates # <<>>
                               THEN Some(movie_id(s1.candidates[1])) ELSE NULL,
            !.top_streak_len = 0,
            !.consecutive_guesses = @ + 1]

\* a rejected guess: the film is eliminated and the cooldown armed
RejectGuess(st, mid) ==
    LET s1 == sort_candidates(eliminate_movie(st, mid))
    IN  [s1 EXCEPT
            !.guess_cooldown = args.guess_cooldown,
            !.top_streak_mid = IF s1.candidates # <<>>
                               THEN Some(movie_id(s1.candidates[1])) ELSE NULL,
            !.top_streak_len = 0,
            !.consecutive_guesses = @ + 1]

\* the player's reply to "Je pense que c'est ..."
Confirm(yes) ==
    /\ pc = "guess"
    /\ IF yes
       THEN /\ pc' = "found"
            /\ UNCHANGED <<state, turns>>
            /\ NoHistoryChange
       ELSE /\ state' = RejectGuess(state, movie_id(state.candidates[1]))
            /\ pc' = "loop"
            /\ turns' = 0
            /\ lastKind' = "reject"
            /\ lastQ' = NULL
            /\ lastAns' = "n"
            /\ before' = state
            /\ UNCHANGED <<trail, langYes, langYesEver>>
    /\ UNCHANGED <<config, aiVars, gameVars, requests, history, q, targeted_questions, ti, httpVars>>

\* what the player may type when no question is left
Choices == {"1", "5", "e", "x"}

\* the prompt shown when the selector returns None with several candidates left
ManualChoice(choice) ==
    /\ pc = "manual"
    /\ IF choice \in {"1", "5"}
       THEN \* a number beyond the pool falls through to q.predicate with q None
            /\ pc' = IF (IF choice = "1" THEN 1 ELSE 5) <= Len(state.candidates)
                     THEN "found" ELSE "crashed"
            /\ UNCHANGED state
            /\ NoHistoryChange
       ELSE IF choice = "e"
       THEN IF state.candidates = <<>>
            THEN pc' = "crashed" /\ UNCHANGED state /\ NoHistoryChange
            ELSE /\ state' = sort_candidates(
                                eliminate_movie(state, movie_id(state.candidates[1])))
                 /\ pc' = "loop"
                 /\ lastKind' = "eliminate"
                 /\ lastQ' = NULL
                 /\ lastAns' = "e"
                 /\ before' = state
                 /\ UNCHANGED <<trail, langYes, langYesEver>>
       ELSE pc' = "loop" /\ UNCHANGED state /\ NoHistoryChange
    /\ UNCHANGED <<config, aiVars, gameVars, requests, history, q, targeted_questions, ti, turns, httpVars>>

\* the keys a Yes to a language question adds to asked
all_languages ==
    {"language_en", "language_fr", "language_ja", "language_es", "language_de",
     "language_it", "language_ko", "language_zh"}

\* recent_question_types after the append, cut to its last 10
RecentTypes(types, q_type) ==
    LET appended == Append(types, q_type)
    IN  IF Len(appended) > 10 THEN SubSeq(appended, Len(appended) - 9, Len(appended))
        ELSE appended

\* a faulty bookkeeping: asked is replaced by the key of the question
MarkAsked_forgetting(st, question, ans) ==
    [st EXCEPT
        !.asked = {question.key},
        !.recent_question_types = RecentTypes(@, get_question_type(question)),
        !.question_count = @ + 1,
        !.consecutive_guesses = 0,
        !.guess_cooldown = IF @ > 0 THEN @ - 1 ELSE @]

\* the bookkeeping of main between the snapshot and update_state_with_answer
MarkAsked(st, question, ans) ==
    [st EXCEPT
        !.asked = IF ans = "y" /\ StartsWith(question, "language_")
                  THEN @ \cup {question.key} \cup all_languages
                  ELSE @ \cup {question.key},
        !.recent_question_types = RecentTypes(@, get_question_type(question)),
        !.question_count = @ + 1,
        !.consecutive_guesses = 0,
        !.guess_cooldown = IF @ > 0 THEN @ - 1 ELSE @]

\* the streak of the top film after an answer
TrackStreak(st) ==
    LET mid == movie_id(st.candidates[1])
    IN  IF st.top_streak_mid = Some(mid)
        THEN [st EXCEPT !.top_streak_len = @ + 1]
        ELSE [st EXCEPT !.top_streak_mid = Some(mid), !.top_streak_len = 1]

\* an answer other than u to the question of the selector
Answer(ans) ==
    /\ pc = "question"
    /\ state.question_count < limit
    /\ LET s1 == update_state_with_answer(MarkAsked(state, Val(q), ans), Val(q), ans,
                                          args.max_strikes)
       IN  IF s1.candidates = <<>>
           THEN \* top = state.candidates[0] raises IndexError
                state' = s1 /\ pc' = "crashed"
           ELSE LET s2 == TrackStreak(s1)
                IN  /\ state' = s2
                    /\ pc' = IF s2.top_streak_len >= 9 /\ s2.guess_cooldown = 0
                             THEN "streak" ELSE "loop"
    /\ history' = Append(history, snapshot_state(state))
    /\ lastKind' = "answer"
    /\ lastQ' = q
    /\ lastAns' = ans
    /\ before' = state
    /\ trail' = Append(trail, state)
    /\ langYes' = IF ans = "y" /\ StartsWith(Val(q), "language_") /\ langYes = 0
                  THEN Len(history) + 1 ELSE langYes
    /\ langYesEver' = (langYesEver \/ (ans = "y" /\ StartsWith(Val(q), "language_")))
    /\ q' = NULL
    /\ UNCHANGED <<config, aiVars, gameVars, requests, targeted_questions, ti, turns, httpVars>>

\* u at the question of the selector
Undo ==
    /\ pc = "question"
    /\ IF history = <<>>
       THEN UNCHANGED <<state, history>> /\ NoHistoryChange
       ELSE /\ state' = Last(history)
            /\ history' = Front(history)
            /\ lastKind' = "undo"
            /\ lastQ' = NULL
            /\ lastAns' = "u"
            /\ before' = Last(trail)
            /\ trail' = Front(trail)
            /\ langYes' = IF langYes > Len(history) - 1 THEN 0 ELSE langYes
            /\ UNCHANGED langYesEver
    /\ pc' = "loop"
    /\ q' = NULL
    /\ UNCHANGED <<config, aiVars, gameVars, requests, targeted_questions, ti, turns, httpVars>>

\* the player's reply to "Le meme film est #1 depuis un moment ..."
StreakConfirm(yes) ==
    /\ pc = "streak"
    /\ IF yes
       THEN /\ pc' = "found"
            /\ UNCHANGED <<state, turns>>
            /\ NoHistoryChange
       ELSE /\ state' = RejectGuess(state, movie_id(state.candidates[1]))
            /\ pc' = "loop"
            /\ turns' = 0
            /\ lastKind' = "reject"
            /\ lastQ' = NULL
            /\ lastAns' = "n"
            /\ before' = state
            /\ UNCHANGED <<trail, langYes, langYesEver>>
    /\ UNCHANGED <<config, aiVars, gameVars, requests, history, q, targeted_questions, ti, httpVars>>

Next ==
    \/ Start
    \/ LoopTop
    \/ \E ans \in answers : TargetedAnswer(ans)
    \/ TargetedUndo
    \/ GuessCheck
    \/ \E yes \in BOOLEAN : Confirm(yes)
    \/ \E choice \in Choices : ManualChoice(choice)
    \/ \E ans \in answers : Answer(ans)
    \/ Undo
    \/ \E yes \in BOOLEAN : StreakConfirm(yes)

Spec == Init /\ [][Next]_vars

\* the types of the variables main works on
TypeOK ==
    /\ pc \in {"start", "loop", "check", "targeted", "guess", "manual", "question",
               "streak", "found", "failed", "crashed"}
    /\ state.question_count \in 0..limit
    /\ Len(history) = Len(trail)

(***************************************************************************)
(* app_akinator: one session of the HTTP game.  pc is "http" once /start   *)
(* has created the session, "nogame" when /start refused to create one;    *)
(* state is the EngineState of the session, current_qkey and               *)
(* proposed_film_id its other entries, response the kind of the last       *)
(* response: "question", "guess" (asking_confirmation), "found", "failed"  *)
(* (finished) or "error" (a 400).  The client may send any request at any  *)
(* time; those the last response did not invite are counted.               *)
(***************************************************************************)
\* max_strikes of the answer handler
HttpMaxStrikes == 3

\* the end of _next_step: choice is what choose_best_question returned
NextQuestion(st, t, choice) ==
    IF choice = {}
    THEN /\ response' = "guess"
         /\ proposed_film_id' = Some(movie_id(st.candidates[1]))
         /\ q' = NULL
         /\ turns' = t
         /\ UNCHANGED current_qkey
    ELSE /\ \E x \in choice :
               /\ q' = Some(x)
               /\ current_qkey' = Some(x.key)
         /\ response' = "question"
         /\ turns' = IF t = -1 THEN -1 ELSE IF t < MaxTurns THEN t + 1 ELSE t
         /\ UNCHANGED proposed_film_id

\* _next_step on the EngineState st, t being the prompts counted so far
NextStep(st, t) ==
    IF st.candidates = <<>>
    THEN /\ response' = "failed"
         /\ q' = NULL
         /\ turns' = t
         /\ UNCHANGED <<current_qkey, proposed_film_id>>
    ELSE IF should_enter_guess_mode(st)
    THEN /\ response' = "guess"
         /\ proposed_film_id' = Some(movie_id(st.candidates[1]))
         /\ q' = NULL
         /\ turns' = t
         /\ UNCHANGED current_qkey
    ELSE NextQuestion(st, t, choose_best_question(st.candidates, build_all_questions(st),
                                                  st.asked, FALSE, st))

\* the end of start_game: choice is what choose_best_question returned
FirstQuestion(st, choice) ==
    IF choice = {}
    THEN \* the 400 is returned before the session is stored
         /\ response' = "error"
         /\ pc' = "nogame"
         /\ UNCHANGED <<state, before, q, current_qkey>>
    ELSE /\ \E x \in choice :
               /\ q' = Some(x)
               /\ current_qkey' = Some(x.key)
         /\ response' = "question"
         /\ pc' = "http"
         /\ state' = st
         /\ before' = st

\* the state start_game builds
StartState == sort_candidates(init_state(movies))

\* POST /start
HttpStart ==
    /\ pc = "start"
    /\ FirstQuestion(StartState,
                     choose_best_question(StartState.candidates,
                                          build_all_questions(StartState),
                                          StartState.asked, TRUE, StartState))
    /\ UNCHANGED <<config, aiVars, gameVars, requests, history, targeted_questions, ti, proposed_film_id, unsolicited,
                   lastKind, lastQ, lastAns, trail, turns, langYes, langYesEver>>

\* next((qq for qq in questions if qq.key == key), None)
FindQuestion(questions, key) ==
    IF \E i \in DOMAIN questions : questions[i].key = key
    THEN Some(questions[CHOOSE i \in DOMAIN questions :
                           /\ questions[i].key = key
                           /\ \A j \in 1..(i - 1) : questions[j].key # key])
    ELSE NULL

\* the fallback of the answer handler on the static questions
OrStatic(found, key) ==
    IF found # NULL THEN found ELSE FindQuestion(default_questions, key)

\* the question the answer handler finds for key: all the questions of the
\* state first, the static ones as a fallback
Lookup(st, key) == OrStatic(FindQuestion(build_all_questions(st), key), key)

\* the keys a request may name: the one of the session, or one already answered
RequestKeys == (IF current_qkey = NULL THEN {} ELSE {Val(current_qkey)}) \cup state.asked

\* TRUE when the last response asked for an answer to key
Invited(key) == response = "question" /\ current_qkey = Some(key)

\* the answer applied: asked and question_count, update_state_with_answer, sort
Answered(st, question, ans) ==
    sort_candidates(
        update_state_with_answer([st EXCEPT !.asked = @ \cup {question.key},
                                            !.question_count = @ + 1],
                                 question, ans, HttpMaxStrikes))

\* the handler once it has looked the question up
ApplyAnswer(found, ans) ==
    IF found = NULL
    THEN /\ response' = "error"
         /\ UNCHANGED <<state, q, current_qkey, proposed_film_id, turns>>
         /\ NoHistoryChange
    ELSE /\ state' = Answered(state, Val(found), ans)
         /\ NextStep(state', turns)
         /\ lastKind' = "answer"
         /\ lastQ' = found
         /\ lastAns' = ans
         /\ before' = state
         /\ langYes' = IF ans = "y" /\ StartsWith(Val(found), "language_") /\ langYes = 0
                       THEN 1 ELSE langYes
         /\ langYesEver' = (langYesEver \/ (ans = "y" /\ StartsWith(Val(found), "language_")))

\* the answers /answer accepts, and the engine's answer for each
UI_TO_ENGINE ==
    [ui \in {"Oui", "Non", "Je ne sais pas", "Probablement", "Probablement pas",
             "y", "n", "?", "py", "pn"} |->
        CASE ui \in {"Oui", "y"} -> "y"
          [] ui \in {"Non", "n"} -> "n"
          [] ui \in {"Je ne sais pas", "?"} -> "?"
          [] ui \in {"Probablement", "py"} -> "py"
          [] OTHER -> "pn"]

\* answers a client may send that UI_TO_ENGINE does not hold
InvalidAnswers == {"maybe"}

\* POST /answer with question_key key (or none, key being the session's)
HttpAnswer(key, ui_answer) ==
    /\ pc = "http"
    /\ state.question_count < limit
    /\ unsolicited' = IF Invited(key) THEN unsolicited ELSE unsolicited + 1
    /\ unsolicited' <= MaxUnsolicited
    /\ IF ui_answer \notin DOMAIN UI_TO_ENGINE
       THEN /\ response' = "error"
            /\ UNCHANGED <<state, q, current_qkey, proposed_film_id, turns>>
            /\ NoHistoryChange
       ELSE ApplyAnswer(Lookup(state, key), UI_TO_ENGINE[ui_answer])
    /\ UNCHANGED <<config, aiVars, gameVars, requests, history, pc, targeted_questions, ti, trail>>

\* the pool after a refusal: the proposed film filtered out and purged, or
\* the first film dropped when the session proposed none
RefusedFilm(st, rejected_id) ==
    IF rejected_id # NULL /\ Val(rejected_id) # 0
    THEN sort_candidates(eliminate_movie(st, Val(rejected_id)))
    ELSE sort_candidates([st EXCEPT !.candidates = Tail(@)])

Refused(st) == RefusedFilm(st, proposed_film_id)

\* POST /confirm
HttpConfirm(confirmed) ==
    /\ pc = "http"
    /\ unsolicited' = IF response = "guess" THEN unsolicited ELSE unsolicited + 1
    /\ unsolicited' <= MaxUnsolicited
    /\ IF confirmed
       THEN /\ response' = "found"
            /\ UNCHANGED <<state, q, current_qkey, proposed_film_id, turns>>
            /\ NoHistoryChange
       ELSE /\ state' = IF state.candidates = <<>> THEN state ELSE Refused(state)
            /\ NextStep(state', IF response = "guess" THEN 0 ELSE turns)
            /\ lastKind' = "reject"
            /\ lastQ' = NULL
            /\ lastAns' = "n"
            /\ before' = state
            /\ UNCHANGED <<trail, langYes, langYesEver>>
    /\ UNCHANGED <<config, aiVars, gameVars, requests, history, pc, targeted_questions, ti>>

NextHTTP ==
    \/ HttpStart
    \/ \E key \in RequestKeys, ui_answer \in answers \cup InvalidAnswers :
          HttpAnswer(key, ui_answer)
    \/ \E confirmed \in BOOLEAN : HttpConfirm(confirmed)

SpecHTTP == Init /\ [][NextHTTP]_vars

(***************************************************************************)
(* app_akinator under app.run, whose server handles each request in a      *)
(* thread of its own: two /answer requests for one game_id are served at   *)
(* the same time.  game_state has no lock, so the threads interleave       *)
(* wherever the interpreter switches; the handler is cut into four steps,  *)
(* each atomic: the lookup up to the start of the loop over                *)
(* state.candidates, that loop (its predicates read the database), the     *)
(* assignments after it up to the handler's sort_candidates, and           *)
(* _next_step.  pc is "threads" while the two requests are served.         *)
(***************************************************************************)
\* what a step of a thread leaves alone
threadFrame ==
    <<config, aiVars, gameVars, history, pc, targeted_questions, ti, unsolicited,
      lastKind, lastQ, lastAns, before, trail, langYes, langYesEver>>

\* the session's fields and the response, written by _next_step only
sessionVars == <<q, current_qkey, proposed_film_id, response, turns>>

\* two clients post /answer for the question the session offers
Receive(first, second) ==
    /\ pc = "http"
    /\ response = "question"
    /\ pc' = "threads"
    /\ requests' =
          [t \in Threads |->
              [NoRequest EXCEPT !.at = "begin",
                                !.key = Val(current_qkey),
                                !.ui_answer = IF t = 1 THEN first ELSE second]]
    /\ before' = state
    /\ UNCHANGED <<config, aiVars, gameVars, state, history, targeted_questions, ti, unsolicited,
                   sessionVars, lastKind, lastQ, lastAns, trail, langYes, langYesEver>>

\* answer, lines 168-210: the checks, the lookup, asked and question_count, and
\* the evaluation of state.candidates that starts the loop of
\* update_state_with_answer
Begun(t, found) ==
    IF requests[t].ui_answer \notin DOMAIN UI_TO_ENGINE \/ found = NULL
    THEN /\ requests' = [requests EXCEPT ![t].at = "done"]
         /\ response' = "error"
         /\ UNCHANGED <<state, q, current_qkey, proposed_film_id, turns>>
    ELSE /\ state' = [state EXCEPT !.asked = @ \cup {Val(found).key},
                                   !.question_count = @ + 1]
         /\ requests' = [requests EXCEPT ![t].at = "loop",
                                         ![t].question = found,
                                         ![t].candidates = state.candidates]
         /\ UNCHANGED sessionVars

ThreadBegin(t) ==
    /\ pc = "threads"
    /\ requests[t].at = "begin"
    /\ Begun(t, Lookup(state, requests[t].key))
    /\ UNCHANGED threadFrame

\* the loop of the branch over the list it started on: scores and strikes are
\* written in place, the films to keep are collected; r is the branch applied
\* to the shared scores and strikes and to that list
Looped(t, ans, r) ==
    /\ state' = [state EXCEPT
                    !.scores  = Assign(@, r.scores),
                    !.strikes = IF ans \in {"y", "n"} THEN @ ELSE r.strikes]
    /\ requests' = [requests EXCEPT ![t].at = "assign", ![t].to_keep = r.candidates]

ThreadLoop(t) ==
    /\ pc = "threads"
    /\ requests[t].at = "loop"
    /\ Looped(t, UI_TO_ENGINE[requests[t].ui_answer],
              AnswerBranch([state EXCEPT !.candidates = requests[t].candidates],
                           Val(requests[t].question),
                           UI_TO_ENGINE[requests[t].ui_answer]))
    /\ UNCHANGED <<threadFrame, sessionVars>>

\* after the loop: state.candidates = to_keep and the two dicts rebuilt (y and
\* n only), the elimination by strikes, sort_candidates, and the handler's own
\* sort_candidates
Assigned(st, question, ans, to_keep) ==
    LET kept == IF ans \in {"y", "n"}
                THEN [st EXCEPT !.candidates = to_keep,
                                !.scores     = Restrict(@, Ids(to_keep)),
                                !.strikes    = Restrict(@, Ids(to_keep))]
                ELSE st
    IN  sort_candidates(sort_candidates(StrikeElimination(kept, question, HttpMaxStrikes)))

ThreadAssign(t) ==
    /\ pc = "threads"
    /\ requests[t].at = "assign"
    /\ state' = Assigned(state, Val(requests[t].question),
                         UI_TO_ENGINE[requests[t].ui_answer], requests[t].to_keep)
    /\ requests' = [requests EXCEPT ![t].at = "next"]
    /\ UNCHANGED <<threadFrame, sessionVars>>

\* _next_step of the thread, on the state as it is then
ThreadNext(t) ==
    /\ pc = "threads"
    /\ requests[t].at = "next"
    /\ NextStep(state, turns)
    /\ requests' = [requests EXCEPT ![t].at = "done"]
    /\ UNCHANGED <<threadFrame, state>>

NextThreads ==
    \/ HttpStart
    \/ \E first \in answers \cup InvalidAnswers, second \in answers \cup InvalidAnswers :
          Receive(first, second)
    \/ \E t \in Threads :
          \/ ThreadBegin(t)
          \/ ThreadLoop(t)
          \/ ThreadAssign(t)
          \/ ThreadNext(t)

SpecThreads == Init /\ [][NextThreads]_vars

(***************************************************************************)
(* app_akinator with several games: game_state holds one session per game  *)
(* id, each with its own EngineState.  What the games share is the         *)
(* database, which no handler writes, and DETAILS_CACHE, which get_details *)
(* fills and reads.  A handler is a function from the session it is called *)
(* for to the set of its outcomes, an outcome being the session it leaves  *)
(* and the reply it sends; the choice among the outcomes is random.choice  *)
(* of the selector.                                                        *)
(***************************************************************************)
\* requests explored per game id
MaxGameRequests == 2

\* a faulty get_details: the cache is read under another key
get_details_any(m) ==
    IF DOMAIN DETAILS_CACHE # {}
    THEN DETAILS_CACHE[CHOOSE mid \in DOMAIN DETAILS_CACHE : TRUE]
    ELSE m

\* get_details: the cached details of the film when there are some, else
\* those read from the database
get_details(m) ==
    IF movie_id(m) \in DOMAIN DETAILS_CACHE THEN DETAILS_CACHE[movie_id(m)] ELSE m

\* the EngineState as the predicates of a handler see it
Detailed(st) == [st EXCEPT !.candidates = [i \in DOMAIN @ |-> get_details(@[i])]]

\* DETAILS_CACHE once the details of the films of candidates have been read
Cached(candidates) ==
    Assign(DETAILS_CACHE,
           [mid \in Ids(candidates) |-> get_details(FilmOf(candidates, mid))])

Outcome(session, reply) == [session |-> session, reply |-> reply]

Session(st, current_qkey_, proposed_film_id_) ==
    [state |-> st, current_qkey |-> current_qkey_, proposed_film_id |-> proposed_film_id_]

\* the guess _next_step replies with
GuessOutcome(st, session) ==
    Outcome(Some(Session(st, session.current_qkey, Some(movie_id(st.candidates[1])))),
            Reply("guess", "none", movie_id(st.candidates[1])))

\* the end of _next_step: choice is what choose_best_question returned
NextChosen(st, session, choice) ==
    IF choice = {}
    THEN {GuessOutcome(st, session)}
    ELSE {Outcome(Some(Session(st, Some(x.key), session.proposed_film_id)),
                  Reply("question", x.key, 0)) : x \in choice}

\* _next_step
NextOutcomes(st, session) ==
    IF st.candidates = <<>>
    THEN {Outcome(Some([session EXCEPT !.state = st]), Reply("failed", "none", 0))}
    ELSE IF should_enter_guess_mode(st)
    THEN {GuessOutcome(st, session)}
    ELSE NextChosen(st, session,
                    choose_best_question(st.candidates, build_all_questions(st),
                                         st.asked, FALSE, st))

\* the end of start_game: choice is what choose_best_question returned
StartChosen(st, choice) ==
    IF choice = {}
    THEN {Outcome(NULL, Reply("error", "none", 0))}
    ELSE {Outcome(Some(Session(st, Some(x.key), NULL)), Reply("question", x.key, 0)) :
             x \in choice}

\* start_game on the EngineState st it has built
StartOutcomes(st) ==
    StartChosen(st, choose_best_question(st.candidates, build_all_questions(st),
                                         st.asked, TRUE, st))

\* answer once it has looked the question up in the session
AnswerFound(session, found, ui_answer) ==
    IF found = NULL
    THEN {Outcome(Some(session), Reply("error", "none", 0))}
    ELSE NextOutcomes(Answered(session.state, Val(found), UI_TO_ENGINE[ui_answer]), session)

\* answer for the session stored under the game id, NULL when there is none
AnswerOutcomes(stored, key, ui_answer) ==
    IF stored = NULL \/ ui_answer \notin DOMAIN UI_TO_ENGINE
    THEN {Outcome(stored, Reply("error", "none", 0))}
    ELSE AnswerFound(Val(stored), Lookup(Val(stored).state, key), ui_answer)

\* confirm_guess after a refusal, st being the EngineState it leaves
RefusalOutcomes(st, session) ==
    IF st.candidates = <<>>
    THEN {Outcome(Some([session EXCEPT !.state = st]), Reply("failed", "none", 0))}
    ELSE NextOutcomes(st, session)

\* confirm_guess for the session stored under the game id
ConfirmOutcomes(stored, confirmed) ==
    IF stored = NULL
    THEN {Outcome(stored, Reply("error", "none", 0))}
    ELSE IF confirmed
    THEN {Outcome(stored, Reply("found", "none", 0))}
    ELSE RefusalOutcomes(IF Val(stored).state.candidates = <<>>
                         THEN Val(stored).state
                         ELSE RefusedFilm(Val(stored).state, Val(stored).proposed_film_id),
                         Val(stored))

\* the session with its films as the handler reads them
Seen(stored) ==
    IF stored = NULL THEN stored
    ELSE Some([Val(stored) EXCEPT !.state = Detailed(@)])

\* the films a handler reads the details of
FilmsOf(stored) == IF stored = NULL THEN <<>> ELSE Val(stored).state.candidates

\* the handler has run for game id g
Served(g, op, key, ui_answer, confirmed, out, read) ==
    /\ served' = [served EXCEPT ![g] = @ + 1]
    /\ game_state' = [game_state EXCEPT ![g] = out.session]
    /\ call' = [gid |-> g, op |-> op, key |-> key, ui_answer |-> ui_answer,
                confirmed |-> confirmed, reply |-> out.reply]
    /\ DETAILS_CACHE' = Cached(read)
    /\ UNCHANGED <<config, aiVars, requests, state, history, pc, q, targeted_questions, ti,
                   httpVars, lastKind, lastQ, lastAns, before, trail, turns, langYes,
                   langYesEver>>

\* POST /start, the new game id being g
GameStart(g) ==
    /\ pc = "start"
    /\ served[g] < MaxGameRequests
    /\ game_state[g] = NULL
    /\ \E out \in StartOutcomes(Detailed(StartState)) :
          Served(g, "start", "none", "none", FALSE, out, movies)

\* POST /answer for game id g, with the question key of the session
GameAnswer(g, ui_answer) ==
    /\ pc = "start"
    /\ served[g] < MaxGameRequests
    /\ LET key == IF game_state[g] = NULL THEN "none"
                  ELSE Val(Val(game_state[g]).current_qkey)
       IN  \E out \in AnswerOutcomes(Seen(game_state[g]), key, ui_answer) :
              Served(g, "answer", key, ui_answer, FALSE, out, FilmsOf(game_state[g]))

\* POST /confirm for game id g
GameConfirm(g, confirmed) ==
    /\ pc = "start"
    /\ served[g] < MaxGameRequests
    /\ \E out \in ConfirmOutcomes(Seen(game_state[g]), confirmed) :
          Served(g, "confirm", "none", "none", confirmed, out, FilmsOf(game_state[g]))

NextGames ==
    \E g \in GameIds :
       \/ GameStart(g)
       \/ \E ui_answer \in answers \cup InvalidAnswers : GameAnswer(g, ui_answer)
       \/ \E confirmed \in BOOLEAN : GameConfirm(g, confirmed)

SpecGames == Init /\ [][NextGames]_vars

(***************************************************************************)
(* api_server and engine_akinator_ai: one session of the LLM game.  pc is  *)
(* "ai" once /api/akinator/start has stored the session, "ai_found" once a *)
(* confirmed guess has deleted it.  akinator is the AkinatorSession;       *)
(* conversation_history is the list of messages of its AkinatorAI.         *)
(***************************************************************************)
\* messages of conversation_history explored per session (the list is
\* unbounded in the code)
MaxMessages == 7
\* the half hours explored per session (the clock is unbounded)
MaxClock == 3

\* what the LLM game leaves alone: the variables of the two other games
engineVars ==
    <<state, history, q, targeted_questions, ti, httpVars, requests, gameVars,
      lastKind, lastQ, lastAns, before, trail, turns, langYes, langYesEver>>

\* what _call_anthropic_api may return: a reply holding QUESTION:, a reply
\* holding GUESS:, or the text it returns when the request failed
Replies == {"QUESTION:", "GUESS:", "ERREUR"}

\* _call_anthropic_api: the user message is appended, and the reply of the
\* model unless the request failed
call_anthropic_api(conversation_history, user_message, reply) ==
    IF reply = "ERREUR"
    THEN Append(conversation_history, [role |-> "user", content |-> user_message])
    ELSE conversation_history \o << [role |-> "user", content |-> user_message],
                                    [role |-> "assistant", content |-> reply] >>

\* the type get_next_question reads in the reply
action_type(reply) == IF reply = "GUESS:" THEN "guess" ELSE "question"

\* the texts a client sends as its answer
Responses == {"y", " Oui", "N", "?", "py", "maybe"}

\* response.lower().strip(), response being text
lower_strip(text) ==
    CASE text = " Oui" -> "oui"
      [] text = "N" -> "n"
      [] OTHER -> text

\* the answer AkinatorSession.answer passes to the model
normalised(text) ==
    IF lower_strip(text) \in {"y", "yes", "oui"} THEN "oui"
    ELSE IF lower_strip(text) \in {"n", "no", "non"} THEN "non"
    ELSE "je ne sais pas"

\* the message get_next_question sends for an answer
previous_answer(answer) ==
    CASE answer = "oui" -> "Reponse: oui"
      [] answer = "non" -> "Reponse: non"
      [] OTHER -> "Reponse: je ne sais pas"

\* SESSION_TIMEOUT = timedelta(hours=1), in half hours
SESSION_TIMEOUT == 2

\* the session is one clean_expired_sessions deletes
Expired == sessions # NULL /\ clock - Val(sessions).created_at > SESSION_TIMEOUT

\* get_session when clean_expired_sessions deleted the session: HTTP 404
SessionExpired ==
    /\ sessions' = NULL
    /\ pc' = "ai_expired"
    /\ result' = [status |-> "error", result |-> "none", action |-> "none"]
    /\ UNCHANGED <<akinator, clock>>

\* session_data["last_activity"] = datetime.now()
Touch == sessions' = Some([Val(sessions) EXCEPT !.last_activity = clock])

\* time passes while the session is stored
Tick ==
    /\ pc = "ai"
    /\ clock < MaxClock
    /\ clock' = clock + 1
    /\ UNCHANGED <<config, engineVars, pc, akinator, result, lastResponse,
                   akinatorBefore, sessions>>

\* GET /api/akinator/sessions and GET /api/akinator/stats: they call
\* clean_expired_sessions and read the sessions left
AiList ==
    /\ pc = "ai"
    /\ Expired
    /\ SessionExpired
    /\ UNCHANGED <<config, engineVars, lastResponse, akinatorBefore>>

\* AkinatorSession.start as called by /api/akinator/start
AiStart ==
    /\ pc = "start"
    /\ sessions' = Some([created_at |-> clock, last_activity |-> clock])
    /\ UNCHANGED clock
    /\ \E reply \in Replies :
          /\ akinator' =
                [is_initialized |-> TRUE,
                 question_count |-> 0,
                 conversation_history |->
                    call_anthropic_api(<< [role |-> "user", content |-> "system_prompt"] >>,
                                       "Commence le jeu !", reply)]
          /\ result' = [status |-> "ok", result |-> "none", action |-> action_type(reply)]
    /\ pc' = "ai"
    /\ UNCHANGED <<config, engineVars, lastResponse, akinatorBefore>>

\* AkinatorSession.answer as called by /api/akinator/answer
AiAnswer(text) ==
    /\ pc = "ai"
    /\ Len(akinator.conversation_history) < MaxMessages
    /\ IF Expired
       THEN SessionExpired
       ELSE IF ~akinator.is_initialized
       THEN /\ result' = [status |-> "error", result |-> "none", action |-> "none"]
            /\ Touch
            /\ UNCHANGED <<akinator, clock, pc>>
       ELSE \E reply \in Replies :
               /\ Touch
               /\ UNCHANGED <<clock, pc>>
               /\ akinator' =
                     [akinator EXCEPT
                         !.conversation_history =
                             call_anthropic_api(@, previous_answer(normalised(text)),
                                                reply),
                         !.question_count =
                             IF action_type(reply) = "question" THEN @ + 1 ELSE @]
               /\ result' = [status |-> "ok", result |-> "none",
                             action |-> action_type(reply)]
    /\ lastResponse' = text
    /\ akinatorBefore' = akinator
    /\ UNCHANGED <<config, engineVars>>

\* AkinatorSession.confirm as called by /api/akinator/confirm, which deletes
\* the session once the film is found
AiConfirm(is_correct) ==
    /\ pc = "ai"
    /\ Len(akinator.conversation_history) < MaxMessages
    /\ UNCHANGED clock
    /\ IF Expired
       THEN SessionExpired
       ELSE IF ~akinator.is_initialized
       THEN /\ result' = [status |-> "error", result |-> "none", action |-> "none"]
            /\ Touch
            /\ UNCHANGED <<akinator, pc>>
       ELSE IF is_correct
       THEN \E reply \in Replies :
               /\ sessions' = NULL
               /\ akinator' =
                     [akinator EXCEPT
                         !.conversation_history =
                             call_anthropic_api(@, "Bravo ! Tu as trouve !", reply)]
               /\ result' = [status |-> "ok", result |-> "found", action |-> "none"]
               /\ pc' = "ai_found"
       ELSE \E reply \in Replies, next \in Replies :
               /\ akinator' =
                     [akinator EXCEPT
                         !.conversation_history =
                             call_anthropic_api(
                                 call_anthropic_api(@, "Non, ce n'etait pas ca.", reply),
                                 "Commence le jeu !", next)]
               /\ result' = [status |-> "ok", result |-> "continue",
                             action |-> action_type(next)]
               /\ Touch
               /\ UNCHANGED pc
    /\ lastResponse' = "none"
    /\ UNCHANGED <<config, engineVars, akinatorBefore>>

NextAI ==
    \/ Tick
    \/ AiList
    \/ AiStart
    \/ \E text \in Responses : AiAnswer(text)
    \/ \E is_correct \in BOOLEAN : AiConfirm(is_correct)

SpecAI == Init /\ [][NextAI]_vars

(***************************************************************************)
(* Properties.                                                             *)
(***************************************************************************)
\* main shows a question to the player: the selector's or a targeted one
Offered == pc \in {"question", "targeted"}

\* the position of the film mid in candidates
PositionOf(candidates, mid) ==
    CHOOSE i \in DOMAIN candidates : movie_id(candidates[i]) = mid

\* C1: a guess is never offered right after a rejected guess, nor after only
\* one question since it: at least two questions come between two guesses
C1_CooldownBetweenGuesses == response = "guess" => turns \notin {0, 1}

\* C2: after an answer '?', whatever the strikes of the candidates, every film
\* is still a candidate and no film has a lower score than before the answer
C2_UnknownRemovesNothing ==
    (lastKind = "answer" /\ lastAns = "?") =>
        /\ Ids(state.candidates) = Ids(before.candidates)
        /\ \A mid \in Ids(before.candidates) :
              Get(state.scores, mid, 0) >= Get(before.scores, mid, 0)

\* C3: after every answer and every confirm the ids with a score are the ids
\* of the candidates, and every id with strikes is one of them
C3_ScoresFollowCandidates ==
    lastKind \in {"answer", "reject"} =>
        /\ DOMAIN state.scores = Ids(state.candidates)
        /\ DOMAIN state.strikes \subseteq Ids(state.candidates)

\* TRUE when no film of st.candidates sorts before a film listed ahead of it
SortedByKey(st) ==
    \A i, j \in DOMAIN st.candidates :
        i < j => ~KeyLess(st.scores, st.candidates[j], st.candidates[i])

\* TRUE when the films of now with equal score and popularity that were
\* candidates in old are in the order they had in old
TiesKeepOrder(old, now) ==
    \A i, j \in DOMAIN now.candidates :
        (/\ i < j
         /\ ~KeyLess(now.scores, now.candidates[i], now.candidates[j])
         /\ {movie_id(now.candidates[i]), movie_id(now.candidates[j])}
               \subseteq Ids(old.candidates))
        => PositionOf(old.candidates, movie_id(now.candidates[i]))
              < PositionOf(old.candidates, movie_id(now.candidates[j]))

C5_HardElimination ==
    (lastKind = "answer" /\ is_hard_elimination(Val(lastQ))) =>
        /\ lastAns = "y" =>
              \A i \in DOMAIN state.candidates :
                  predicate(Val(lastQ), state.candidates[i]) # "False"
        /\ lastAns = "n" =>
              \A i \in DOMAIN state.candidates :
                  predicate(Val(lastQ), state.candidates[i]) # "True"

\* a Yes to a hard-elimination question has removed a film and kept another
C5_Witness ==
    /\ lastKind = "answer"
    /\ lastAns = "y"
    /\ is_hard_elimination(Val(lastQ))
    /\ \E i \in DOMAIN before.candidates :
          predicate(Val(lastQ), before.candidates[i]) = "False"
    /\ state.candidates # <<>>

\* C6: an undo leaves every field of the EngineState as it was before the
\* answer it takes back, and an undo that empties the stack leaves the
\* EngineState main entered its loop with
C6_UndoRestores ==
    lastKind = "undo" =>
        /\ state = before
        /\ history = <<>> => state = SetUp(movies)

\* an undo has taken back an answer that was not the first of the game
C6_Witness ==
    /\ lastKind = "undo"
    /\ state.question_count >= 1
    /\ state.recent_question_types # <<>>
    /\ state.asked # {}

\* C7 as stated: once a language_ question was answered Yes, no question
\* offered afterwards has a key starting with language_
C7_NoLanguageAfterYesEver ==
    (langYesEver /\ Offered) => ~StartsWith(Val(q), "language_")

\* C7: while a Yes to a language_ question has not been taken back by an
\* undo, no question offered has a key starting with language_
C7_NoLanguageAfterYes ==
    (langYes > 0 /\ Offered) => ~StartsWith(Val(q), "language_")

\* a question is offered while a Yes to a language_ question stands
C7_Witness == langYes > 0 /\ Offered /\ state.question_count >= 1

\* C8: a question offered to the player, by the selector or by the targeted
\* loop, has its requires within asked and its excludes disjoint from asked
C8_DependenciesRespected ==
    Offered => /\ Val(q).requires \subseteq state.asked
               /\ Val(q).excludes \cap state.asked = {}

\* C9: the question of a response has a key that is not in asked, and an
\* answer is applied only to a key that was not in asked
C9_NoKeyAskedTwice ==
    /\ (response = "question" /\ q # NULL) => Val(q).key \notin state.asked
    /\ lastKind = "answer" => Val(lastQ).key \notin before.asked

\* C10: asked holds at most one key starting with joker_title_
C10_OneJoker == Cardinality(state.asked \cap JokerKeys) <= 1

\* C11 as stated: no step of a game removes a key from asked
C11_AskedNeverShrinks == [][state.asked \subseteq state'.asked]_vars

\* C11: no step of a game other than an undo (a step that pops the stack of
\* snapshots) removes a key from asked
C11_AskedShrinksOnlyOnUndo ==
    [][Len(history') >= Len(history) => state.asked \subseteq state'.asked]_vars

\* an answer was applied in a state that already had keys in asked
C11_Witness ==
    /\ lastKind = "answer"
    /\ before.asked # {}
    /\ before.asked \subseteq state.asked
    /\ before.asked # state.asked

\* C12: an empty pool leads to the failure outcome and to nothing else: with
\* no candidate left main is at the top of its loop, about to report the
\* failure, or has reported it; it shows no prompt and does not raise
C12_EmptyPoolFails == state.candidates = <<>> => pc \in {"loop", "failed"}

\* C13: the first call of a game whose pool holds a single film proposes that
\* film: the response to /start (and to whatever follows while the state is
\* the one /start built) is the guess or the found film, not a question and
\* not an error
C13_SingleFilmIsGuessed ==
    (response # "none" /\ lastKind = "init" /\ Len(state.candidates) = 1)
        => response \in {"guess", "found"}

\* C14: a film is proposed only when the cooldown is 0 and one of the four
\* convergence rules of should_enter_guess_mode holds on the state, and the
\* film proposed is the first of the candidates
C14_GuessOnlyWhenConverged ==
    response = "guess"
        => /\ state.guess_cooldown = 0
           /\ should_enter_guess_mode(state)
           /\ proposed_film_id = Some(movie_id(state.candidates[1]))

\* the films of old that are no longer in now
Gone(old, now) == Ids(old.candidates) \ Ids(now.candidates)

\* C15: after a refused guess the film proposed, and no other, has left the
\* candidates, the scores and the strikes; the cooldown is the configured
\* guess_cooldown, the streak is 0, consecutive_guesses is one more than
\* before; the scores and strikes of the other films, asked and
\* question_count are what they were (unsolicited = 0: the refusal answers a
\* guess)
C15_RefusedGuess ==
    (lastKind = "reject" /\ unsolicited = 0)
        => /\ Gone(before, state) = {movie_id(before.candidates[1])}
           /\ Gone(before, state) \cap (DOMAIN state.scores \cup DOMAIN state.strikes) = {}
           /\ state.guess_cooldown = args.guess_cooldown
           /\ state.top_streak_len = 0
           /\ state.consecutive_guesses = before.consecutive_guesses + 1
           /\ \A mid \in Ids(state.candidates) :
                  /\ Get(state.scores, mid, 0) = Get(before.scores, mid, 0)
                  /\ Get(state.strikes, mid, 0) = Get(before.strikes, mid, 0)
           /\ state.asked = before.asked
           /\ state.question_count = before.question_count

\* C16: a turn that main starts with several candidates and
\* consecutive_guesses at its maximum shows a targeted question next, not a
\* guess; and the answer to a targeted question leaves consecutive_guesses
\* at 0
C16_TargetedBeforeGuess ==
    [][/\ (/\ pc = "loop"
           /\ Len(state.candidates) >= 2
           /\ state.consecutive_guesses >= args.max_consecutive_guesses)
          => pc' = "targeted"
       /\ (pc = "targeted" /\ Len(history') > Len(history))
          => state'.consecutive_guesses = 0]_vars

\* C17: when no convergence rule holds and the selector has no question for
\* a pool of several films, the response is not a guess
C17_NoQuestionIsNoGuess ==
    (response = "guess" /\ Len(state.candidates) > 1 /\ ~should_enter_guess_mode(state))
        => choose_best_question(state.candidates, build_all_questions(state),
                                state.asked, FALSE, state) # {}

\* the texts that spell one of the five answers
InAlphabet(text) ==
    lower_strip(text) \in {"y", "yes", "oui", "n", "no", "non", "?", "py", "pn"}

\* C18: an answer that is none of the five values is refused: the call
\* returns an error and leaves the session as it was
C18_InvalidAnswerRefused ==
    (lastResponse # "none" /\ ~InAlphabet(lastResponse))
        => result.status = "error" /\ akinator = akinatorBefore

\* the column (or the rows of the details) that the predicate of question reads is
\* missing for film m
AttributeAbsent(question, m) ==
    LET kind == question.pred[1]
    IN  CASE kind \in {"after_year", "before_year", "decade"} -> m.year = NULL
          [] kind \in {"genre", "animation", "live_action"} -> m.genres = {}
          [] kind = "language" -> m.original_language = None
          [] kind = "popularity" -> FALSE
          [] kind \in {"budget_ge", "budget_lt", "indie"} -> NoBudget(m)
          [] kind \in {"saga", "standalone"} -> ~m.collection
          [] kind \in {"title_letter", "joker"} -> m.title = NULL
          \* the lambda of build_binary_disambiguation_questions is not one of
          \* the pred_* functions
          [] kind = "title_words" -> FALSE

\* C19: the predicate of an answered question is None for every film whose
\* attribute is missing; it is True or False only for the films that have it
C19_AbsentIsUnknown ==
    lastKind = "answer"
        => \A i \in DOMAIN before.candidates :
              AttributeAbsent(Val(lastQ), before.candidates[i])
                  => predicate(Val(lastQ), before.candidates[i]) = None


\* the whole answer handler on st, run alone
ServedAlone(st, key, ui_answer, found) ==
    IF ui_answer \notin DOMAIN UI_TO_ENGINE \/ found = NULL
    THEN st
    ELSE Answered(st, Val(found), UI_TO_ENGINE[ui_answer])

\* the EngineState after the request of thread t, then that of thread u, each
\* served alone, from st
OneAfterTheOther(st, t, u) ==
    LET mid == ServedAlone(st, requests[t].key, requests[t].ui_answer,
                           Lookup(st, requests[t].key))
    IN  ServedAlone(mid, requests[u].key, requests[u].ui_answer,
                    Lookup(mid, requests[u].key))

BothServed == pc = "threads" /\ \A t \in Threads : requests[t].at = "done"

\* C20: two /answer requests for one session that arrive together leave the
\* EngineState that one of the two serial orders of the complete turns leaves
C20_TurnsSerialised ==
    BothServed => state \in {OneAfterTheOther(before, 1, 2), OneAfterTheOther(before, 2, 1)}

\* the outcomes of the last request, had the session of its game id been the
\* only one and nothing been cached: stored is the session before the request
AloneOutcomes(stored, request) ==
    CASE request.op = "start"   -> StartOutcomes(StartState)
      [] request.op = "answer"  -> AnswerOutcomes(stored, request.key, request.ui_answer)
      [] request.op = "confirm" -> ConfirmOutcomes(stored, request.confirmed)
      [] OTHER                  -> {}

\* C21: a request for one game id leaves the session of every other game id
\* as it was, and the session and the reply it produces for its own game id
\* are what the handler produces from that session alone
C21_GamesIndependent ==
    [][\A g \in GameIds :
          IF call'.gid = g
          THEN Outcome(game_state'[g], call'.reply) \in AloneOutcomes(game_state[g], call')
          ELSE game_state'[g] = game_state[g]]_vars

\* a request was served for one game after the other game had been played and
\* had filled the cache
C21_Witness ==
    /\ call.gid = "b"
    /\ call.op = "answer"
    /\ call.reply.kind \in {"question", "guess"}
    /\ game_state["a"] # NULL
    /\ Val(game_state["a"]).state.question_count >= 1
    /\ Val(game_state["a"]).state # Val(game_state["b"]).state

\* C22: the film of the top streak is one of the candidates, or the streak
\* has length 0
C22_StreakFilmIsCandidate ==
    \/ state.top_streak_len = 0
    \/ /\ state.top_streak_mid # NULL
       /\ Val(state.top_streak_mid) \in Ids(state.candidates)

\* C23: once a guess has been confirmed the game is over: whatever request
\* follows for the session is answered by an error and leaves the EngineState
\* as it is
C23_FoundEndsGame ==
    [][response = "found" => (response' = "error" /\ state' = state)]_vars

\* --top-streak-questions as main parses it: max(2, 3) when the option is not given
top_streak_questions == 3

\* TRUE when the film on top has been on top for top_streak_questions answers
StreakReached ==
    /\ state.candidates # <<>>
    /\ state.top_streak_mid = Some(movie_id(state.candidates[1]))
    /\ state.top_streak_len >= top_streak_questions

\* C24: when one film has been on top for the configured number of answered
\* questions and the cooldown is 0, main guesses: it does not offer a
\* question, a targeted question or the manual choice
C24_StreakGuess ==
    (StreakReached /\ state.guess_cooldown = 0) => pc \notin {"question", "targeted", "manual"}

\* C25: once an answer has been applied, no candidate has max_strikes strikes
\* or more
C25_StrikesEliminate ==
    lastKind = "answer"
        => \A mid \in Ids(state.candidates) : Get(state.strikes, mid, 0) < args.max_strikes

\* C26: a Yes or a No to a question that is not a hard-elimination one removes
\* only films whose strikes had reached max_strikes
C26_SoftKeepsContradicting ==
    (lastKind = "answer" /\ lastAns \in {"y", "n"} /\ ~is_hard_elimination(Val(lastQ)))
        => \A mid \in Gone(before, state) : Get(before.strikes, mid, 0) >= args.max_strikes

\* the keys of the language questions of the catalogue
LanguageKeys ==
    {default_questions[i].key : i \in {j \in DOMAIN default_questions :
                                          StartsWith(default_questions[j], "language_")}}

\* C27: after a Yes to a language question, the keys of all the language
\* questions of the catalogue are in asked
C27_LanguageSiblingsAsked ==
    (lastKind = "answer" /\ lastAns = "y" /\ lastQ # NULL /\ StartsWith(Val(lastQ), "language_"))
        => LanguageKeys \subseteq state.asked

\* the pairs of keys the spec declares contradictory
DeclaredPairs ==
    { {"big_budget", "small_budget"}, {"runtime_lt_90", "runtime_ge_150"},
      {"is_animation", "is_live_action"}, {"is_saga", "is_standalone"},
      {"after_1980", "before_1970"} }

\* C28: a question offered to the player, by the selector or by the targeted
\* loop, is not the other key of a declared pair one key of which is in asked
C28_PairsExclude ==
    Offered => \A pair \in DeclaredPairs :
                  Val(q).key \in pair => (pair \ {Val(q).key}) \cap state.asked = {}

\* the score of a question after the diversity penalty
FinalScore(st, question) ==
    Diversified(st, question, QuestionScore(question, st.candidates))

\* the questions of a list with a positive final score that no question of
\* the list exceeds and no earlier question of the list equals: one at most
BestOf(st, list) ==
    {list[i] : i \in {k \in DOMAIN list :
        /\ FinalScore(st, list[k]) > 0
        /\ \A j \in DOMAIN list : FinalScore(st, list[j]) <= FinalScore(st, list[k])
        /\ \A j \in 1..(k - 1) : FinalScore(st, list[j]) < FinalScore(st, list[k])}}

\* the eligible questions among those main offers to the selector, in the
\* order main offers them
EligibleOffered(st) ==
    SelectIndices(merged_questions(st),
                  {i \in DOMAIN merged_questions(st) :
                      Eligible(merged_questions(st)[i], st.asked)})

\* main selects a question on a turn that is not the first
LaterSelection ==
    pc = "check" /\ pc' \in {"question", "manual", "found"} /\ state.question_count > 0

\* the selection returned its argument: {} stands for None
Selected(best) ==
    IF pc' = "question" THEN q' # NULL /\ Val(q') \in best ELSE best = {}

\* C29 as stated: on a turn other than the first the selector returns the
\* eligible question offered to it with the highest final score, the earliest
\* offered of them on a tie, and None only when no eligible question has a
\* positive score
C29_BestOfEligible ==
    [][LaterSelection => Selected(BestOf(state, EligibleOffered(state)))]_vars

\* C29: on a turn other than the first the selector returns the question
\* with the highest final score among those it scores, the earliest of them
\* on a tie, and None only when none of them has a positive score; it scores
\* the eligible questions in the offered order when they are 200 at most,
\* and otherwise the eligible validation and language questions followed by
\* the first other eligible ones, 200 in all
C29_BestOfScored ==
    [][LaterSelection
          => Selected(BestOf(state, valid_questions(merged_questions(state),
                                                    state.asked)))]_vars

\* a question selected on a later turn among more than 200 eligible ones,
\* some of them with the same final score as the selected one
C29_Witness ==
    /\ pc = "question"
    /\ state.question_count > 0
    /\ Len(valid_questions(merged_questions(state), state.asked))
          < Len(EligibleOffered(state))
    /\ \E i \in DOMAIN EligibleOffered(state) :
          /\ EligibleOffered(state)[i] # Val(q)
          /\ FinalScore(state, EligibleOffered(state)[i]) = FinalScore(state, Val(q))

\* scored of choose_best_question before the sort, for the selection main
\* makes in the state: pairs of a question and its final score
scored == KeepPositive(valid_questions(merged_questions(state), state.asked),
                       state.candidates, state)

\* the two most recently asked questions both have the tag
LastTwoSame(types, tag) ==
    Len(types) >= 2 /\ types[Len(types)] = tag /\ types[Len(types) - 1] = tag

\* fewer than three distinct tags appear in the last five questions and the
\* tag appears at least twice among them
FewTags(types, tag) ==
    Cardinality(Range(LastN(types, 5))) < 3 /\ CountOf(LastN(types, 5), tag) >= 2

\* C30: a question whose tag is neither language nor validation has its score
\* multiplied by 0.1 whenever the two most recently asked questions both have
\* its tag, or fewer than three distinct tags appear in the last five
\* questions and its tag appears at least twice among them; a language or
\* validation question keeps its score
C30_DiversityPenalty ==
    pc = "question" =>
        \A i \in DOMAIN scored :
            IF get_question_type(scored[i][1]) \in {"language", "validation"}
            THEN scored[i][2] = QuestionScore(scored[i][1], state.candidates)
            ELSE (\/ LastTwoSame(state.recent_question_types,
                                 get_question_type(scored[i][1]))
                  \/ FewTags(state.recent_question_types,
                             get_question_type(scored[i][1])))
                 => scored[i][2]
                      = Scale(QuestionScore(scored[i][1], state.candidates), 1, 10)

\* C31: after every answered question, on every handler that applies
\* answers, the last element of recent_question_types is the category tag of
\* that question, and recent_question_types holds 10 entries at most
C31_RecentTypesFollowAnswers ==
    /\ Len(state.recent_question_types) <= 10
    /\ (lastKind = "answer" /\ lastQ # NULL)
          => /\ state.recent_question_types # <<>>
             /\ Last(state.recent_question_types) = get_question_type(Val(lastQ))

\* C32: guess_cooldown is a non-negative integer in every reachable state,
\* whatever --guess-cooldown main accepted, and an answered question lowers
\* it by exactly one while it is positive
C32_CooldownCountsDown ==
    [][/\ state'.guess_cooldown >= 0
       /\ state'.question_count = state.question_count + 1
             => state'.guess_cooldown
                  = (IF state.guess_cooldown > 0 THEN state.guess_cooldown - 1 ELSE 0)]_vars

\* C33: a session is removed by expiry only once its time-to-live of
\* inactivity has elapsed: a session whose last answer or confirm is less
\* than one hour old is not removed, however long ago it was created
C33_ExpiryAfterInactivity ==
    [][(sessions # NULL /\ pc' = "ai_expired")
          => clock - Val(sessions).last_activity >= SESSION_TIMEOUT]_vars

\* C34: in the game of main with guess_cooldown >= 1, consecutive_guesses
\* never exceeds 1 and the targeted-question mode is never entered
C34_NoTargetedWithCooldown ==
    args.guess_cooldown >= 1 => (state.consecutive_guesses <= 1 /\ pc # "targeted")

\* a guess was refused in a game with guess_cooldown >= 1, and a question
\* answered after it
C34_Witness ==
    /\ args.guess_cooldown >= 1
    /\ lastKind = "answer"
    /\ turns >= 1
    /\ state.consecutive_guesses = 0

\* some candidate answers True to the question and some candidate answers False
Splits(candidates, question) ==
    /\ split_counts(candidates, question).yes >= 1
    /\ split_counts(candidates, question).no >= 1

\* no candidate has reached max_strikes
BelowMaxStrikes(st) ==
    \A mid \in Ids(st.candidates) : Get(st.strikes, mid, 0) < args.max_strikes

\* the player answers Yes or No to the question the selector returned
YesOrNo ==
    pc = "question" /\ lastKind' = "answer" /\ lastAns' \in {"y", "n"}
       /\ state'.question_count = state.question_count + 1

\* C35: a question the selector returns has a candidate answering True and a
\* candidate answering False; when no candidate has reached max_strikes, a
\* Yes or a No to it removes at least one film and leaves at least one
C35_SelectedQuestionSplits ==
    [][/\ pc' = "question" => Splits(state'.candidates, Val(q'))
       /\ (YesOrNo /\ BelowMaxStrikes(state))
             => /\ Len(state'.candidates) < Len(state.candidates)
                /\ state'.candidates # <<>>]_vars

\* a Yes or a No to a question of the selector that some candidate had no
\* answer to
C35_Witness ==
    /\ lastKind = "answer"
    /\ lastAns \in {"y", "n"}
    /\ pc \in {"loop", "streak"}
    /\ lastQ # NULL
    /\ split_counts(before.candidates, Val(lastQ)).unk >= 1
    /\ BelowMaxStrikes(before)
    /\ Len(state.candidates) < Len(before.candidates)

\* C36: question_count <= |asked| in every reachable state: an answered
\* question raises question_count by exactly one and adds at least one new
\* key to asked, and guesses and confirmations change neither
C36_CountWithinAsked ==
    [][/\ state'.question_count <= Cardinality(state'.asked)
       /\ state'.question_count > state.question_count
             => /\ state'.question_count = state.question_count + 1
                /\ Cardinality(state'.asked) > Cardinality(state.asked)
       /\ lastKind' = "reject"
             => /\ state'.question_count = state.question_count
                /\ state'.asked = state.asked]_vars

\* the films the last operation removed when it was a rejected guess
Rejected ==
    IF lastKind = "reject" THEN Ids(before.candidates) \ Ids(state.candidates) ELSE {}

\* C37: the film of a rejected guess is not a candidate again: the operation
\* that follows the rejection, an answer, a confirmation or an undo, leaves
\* it out of the candidates
C37_RejectedStaysOut == [][Rejected \cap Ids(state'.candidates) = {}]_vars

\* the film confirm_guess names when confirmed is true: the first of the
\* candidates, or none ("Inconnu") when there is no candidate
Reported ==
    IF state.candidates = <<>> THEN NULL ELSE Some(movie_id(state.candidates[1]))

\* C38: the film /confirm reports as found is the film the session holds as
\* proposed by its last guess, whatever answer and confirm requests came
\* between that guess and the confirmation
C38_FoundIsProposed ==
    (response = "found" /\ proposed_film_id # NULL) => Reported = proposed_film_id

\* C39: a /confirm with confirmed false that arrives while no guess is
\* pending removes no film from the candidates and leaves scores and strikes
\* as they were
C39_ConfirmNeedsPendingGuess ==
    [][(lastKind' = "reject" /\ response # "guess")
          => /\ Ids(state'.candidates) = Ids(state.candidates)
             /\ state'.scores = state.scores
             /\ state'.strikes = state.strikes]_vars
============================================================================
